---- MODULE Spec2Model ----
(***************************************************************************)
(* Verification model of the ingest pipeline's two-tier cache, of the      *)
(* cache-key derivation, of the job runner with its transform driver, and  *)
(* of the registry, of the plugin loader and of the HTTP data sources.     *)
(*                                                                         *)
(* Conventions.  A Python str is a tuple of one-character strings          *)
(* (<<"1",":","0">> is "1:0"); a few longer fragments ("tmp", a pid, a     *)
(* random token, a digest) stand for runs of characters that contain none  *)
(* of '-', ':', '.', '/'.  Python bytes are tuples of integers.  An        *)
(* optional value is <<>> (None) or <<v>>.  SHA-256 is taken as an         *)
(* injective function whose digest is one opaque fragment.                 *)
(*                                                                         *)
(* Specifications.                                                         *)
(*   Spec     the raw cache used by one caller at a time                   *)
(*   SpecPre  the preprocessed cache used by one caller at a time          *)
(*   SpecRace two callers of save, system call by system call, with        *)
(*            readers in between and a kill of the process                 *)
(*   SpecFault  SpecRace with writes of save that fail with an I/O error   *)
(*   SpecKey  two calls of make_cache_key on arbitrary inputs              *)
(*   SpecJob  one RunJobTask: prepare(), run() and close() in any order,   *)
(*            run() turn by turn of its loops, over both caches            *)
(*   SpecReg  one Registry: register, get, require and `in`                *)
(*   SpecRegRace  two threads in Registry.register, statement by statement *)
(*   SpecLoader   threads calling the plugin loader of cli/runtime.py       *)
(*   SpecHttp     one fetch of an HTTP source against a scripted server     *)
(*   SpecPaged    one paginated fetch, page request by page request         *)
(*   SpecZip      one link-file fetch: detection, extraction, records       *)
(*   SpecBatch    one cmd_run: the loop over the tasks of the config        *)
(***************************************************************************)
EXTENDS Integers, Sequences, FiniteSets, TLC

VARIABLES
    rawfs,      \* raw cache base directory: directory name -> content
    prefs,      \* preprocessed cache base directory: directory name -> content
    wr,         \* the writers (threads/processes calling save): w -> frame
    rd,         \* the observation made by the most recent reader call
    log,        \* history: which save committed which directory, counters
    kc,         \* the two make_cache_key calls being compared
    task,       \* one RunJobTask, its job and the run() in progress
    reg,        \* one Registry: its _items and the last call made on it
    ld,         \* the plugin loader: imported set, lock and calling threads
    http,       \* one source fetching over HTTP: server script and progress
    zip,        \* one link-file download and the extraction of its archive
    batch       \* one cmd_run: its tasks, the loop over them and the calls made

vars == <<rawfs, prefs, wr, rd, log, kc, task, reg, ld, http, zip, batch>>

cacheVars == <<rawfs, prefs, wr, rd, log>>

----------------------------------------------------------------------------
(* Bounds *)

MaxSaves == 2        \* save calls started in one behaviour
MaxTampers == 1      \* external modifications of a stored file

----------------------------------------------------------------------------
(* Optional values *)

None == <<>>
Some(v) == <<v>>
IsNone(o) == Len(o) = 0
Val(o) == o[1]

(* Strings *)

RemoveChar(s, c) == SelectSeq(s, LAMBDA x : x # c)

EndsWith(s, suffix) ==
    /\ Len(s) >= Len(suffix)
    /\ SubSeq(s, Len(s) - Len(suffix) + 1, Len(s)) = suffix

\* number of parts of s.split("-")
SplitCount(s) == Len(SelectSeq(s, LAMBDA x : x = "-")) + 1

\* code points of the characters the model uses (Python compares str by code point)
CharOrd(c) ==
    CASE c = "\"" -> 34 [] c = "," -> 44
      [] c = "-" -> 45 [] c = "." -> 46 [] c = "/" -> 47
      [] c = "0" -> 48 [] c = "1" -> 49 [] c = "2" -> 50
      [] c = ":" -> 58
      [] c = "a" -> 97 [] c = "b" -> 98 [] c = "d" -> 100
      [] c = "h" -> 104 [] c = "s" -> 115
      [] c = "t" -> 116 [] c = "x" -> 120 [] c = "y" -> 121
      [] c = "{" -> 123 [] c = "}" -> 125
      \* fragments of a temporary directory's suffix, ordered among themselves
      [] c = "tmp" -> 1000 [] c = "p1" -> 1001 [] c = "p2" -> 1002
      [] c = "r1" -> 1003 [] c = "r2" -> 1004
      [] OTHER -> 2000

RECURSIVE StrLess(_, _)
StrLess(a, b) ==
    IF Len(b) = 0 THEN FALSE
    ELSE IF Len(a) = 0 THEN TRUE
    ELSE IF a[1] # b[1] THEN CharOrd(a[1]) < CharOrd(b[1])
    ELSE StrLess(Tail(a), Tail(b))

\* sorted(S) for a set of strings
RECURSIVE SortedSeq(_)
SortedSeq(S) ==
    IF S = {} THEN <<>>
    ELSE LET m == CHOOSE x \in S : \A y \in S \ {x} : StrLess(x, y)
         IN <<m>> \o SortedSeq(S \ {m})

----------------------------------------------------------------------------
(* Helpers of cache/raw.py *)

_sha256_hex(data) == <<"sha256", data>>

_safe_ts_for_path(fetched_at_iso) == RemoveChar(RemoveChar(fetched_at_iso, ":"), ".")

_run_dir_from_parts(config_name, content_hash, fetched_at_iso) ==
    _safe_ts_for_path(fetched_at_iso) \o <<"-">> \o config_name \o <<"-">> \o content_hash

----------------------------------------------------------------------------
(* Input domains *)

ConfigNames == { <<"a">>, <<"b", "-", "a">> }

\* stand-in for the 64 hex characters of a content hash
ContentHashes == { <<"h">> }

\* "1:0" and "10" differ only in ':'; "2" is a different instant
Timestamps == { <<"1", ":", "0">>, <<"1", "0">>, <<"2">> }

CacheKeys ==
    [config_name : ConfigNames,
     content_hash : ContentHashes,
     fetched_at_iso : {None} \cup {Some(t) : t \in Timestamps}]

Key(config_name, content_hash, fetched_at_iso) ==
    [config_name |-> config_name, content_hash |-> content_hash,
     fetched_at_iso |-> fetched_at_iso]

Payloads == { <<>>, <<7>> }

\* RawCacheMeta.meta: Dict[str, str]; <<>> is the empty dict
MetaMaps == { <<>>, (<<"d">> :> <<"x">>) }

RawCacheMeta(fetched_at_iso, meta) ==
    [source_name |-> <<"s">>,
     fetched_at_iso |-> fetched_at_iso,
     content_type |-> <<"t">>,
     encoding |-> <<"b">>,
     cache_path |-> <<>>,
     meta |-> meta]

RawCacheRecord(payload, fetched_at_iso, meta) ==
    [payload |-> payload, meta |-> RawCacheMeta(fetched_at_iso, meta)]

\* records a source can yield: an empty payload with an empty meta map and
\* another record for the same instant, one record for each other instant,
\* and a record that carries no timestamp
RawCacheRecords ==
    { RawCacheRecord(<<>>, <<"1", ":", "0">>, <<>>),
      RawCacheRecord(<<7>>, <<"1", ":", "0">>, (<<"d">> :> <<"x">>)),
      RawCacheRecord(<<7>>, <<"1", "0">>, (<<"d">> :> <<"x">>)),
      RawCacheRecord(<<>>, <<"2">>, (<<"d">> :> <<"x">>)),
      RawCacheRecord(<<7>>, <<>>, <<>>) }

\* the save calls tried: a key without timestamp with every record, keys
\* whose timestamp equals, differs from, or differs only in ':' from the
\* record's, and a second config whose name has a dash
RawSaveInputs ==
    { <<Key(<<"a">>, <<"h">>, None), r>> : r \in RawCacheRecords }
    \cup
    { <<Key(<<"a">>, <<"h">>, Some(<<"1", ":", "0">>)), r>> :
         r \in { RawCacheRecord(<<>>, <<"1", ":", "0">>, <<>>),
                 RawCacheRecord(<<7>>, <<"1", ":", "0">>, (<<"d">> :> <<"x">>)),
                 RawCacheRecord(<<7>>, <<"1", "0">>, (<<"d">> :> <<"x">>)) } }
    \cup
    { <<Key(<<"a">>, <<"h">>, Some(<<"1", "0">>)),
        RawCacheRecord(<<7>>, <<"1", "0">>, (<<"d">> :> <<"x">>))>>,
      <<Key(<<"a">>, <<"h">>, Some(<<"2">>)),
        RawCacheRecord(<<>>, <<"2">>, (<<"d">> :> <<"x">>))>>,
      <<Key(<<"b", "-", "a">>, <<"h">>, None),
        RawCacheRecord(<<>>, <<"2">>, (<<"d">> :> <<"x">>))>> }

Writers == {1, 2}

----------------------------------------------------------------------------
(* JSON values as json.dumps writes them and json.loads reads them back *)

JStr(s) == [t |-> "str", v |-> s]
JInt(n) == [t |-> "int", v |-> n]
JObj(f) == [t |-> "obj", v |-> f]

IsJStr(j) == j.t = "str"
IsJObj(j) == j.t = "obj"

\* decimal digits of a natural number, as a string
RECURSIVE Decimal(_)
Decimal(n) ==
    LET digit == <<"0", "1", "2", "3", "4", "5", "6", "7", "8", "9">>[(n % 10) + 1]
    IN IF n < 10 THEN <<digit>> ELSE Decimal(n \div 10) \o <<digit>>

\* Python str(x) of a value read from JSON
PyStr(j) == IF j.t = "str" THEN j.v ELSE IF j.t = "int" THEN Decimal(j.v) ELSE <<"?">>

\* a variant that stores the path-safe form of the timestamp
asdict_path_safe(meta) ==
    JObj([source_name |-> JStr(meta.source_name),
          fetched_at_iso |-> JStr(_safe_ts_for_path(meta.fetched_at_iso)),
          content_type |-> JStr(meta.content_type),
          encoding |-> JStr(meta.encoding),
          cache_path |-> JStr(meta.cache_path),
          meta |-> JObj([k \in DOMAIN meta.meta |-> JStr(meta.meta[k])])])

\* dataclasses.asdict(record.meta) as a JSON object
asdict(meta) ==
    JObj([source_name |-> JStr(meta.source_name),
          fetched_at_iso |-> JStr(meta.fetched_at_iso),
          content_type |-> JStr(meta.content_type),
          encoding |-> JStr(meta.encoding),
          cache_path |-> JStr(meta.cache_path),
          meta |-> JObj([k \in DOMAIN meta.meta |-> JStr(meta.meta[k])])])

----------------------------------------------------------------------------
(* The raw cache directory tree.  rawfs maps the name of every directory   *)
(* under the base directory to its files; a missing base directory and an  *)
(* empty one give the same answer in every reader, so they are one state.  *)

EmptyRawDir == [payload |-> None, meta |-> None, meta_tmp |-> None]

\* the text of a file whose write was cut short
Truncated == [t |-> "truncated", v |-> 0]

\* the meta.json object that FileSystemRawCache.save builds
RawMetaObj(key, record, fetched_at_iso) ==
    JObj([version |-> JInt(1),
          checksum |-> JObj([algo |-> JStr(<<"sha256">>),
                             hex |-> JStr(_sha256_hex(record.payload))]),
          size_bytes |-> JInt(Len(record.payload)),
          raw |-> asdict(record.meta),
          key |-> JObj([config_name |-> JStr(key.config_name),
                        content_hash |-> JStr(key.content_hash),
                        fetched_at_iso |-> JStr(fetched_at_iso)]),
          payload_file |-> JStr(<<"payload.bin">>)])

\* key.fetched_at_iso or record.meta.fetched_at_iso
RawFetchedAt(key, record) ==
    IF ~IsNone(key.fetched_at_iso) /\ Val(key.fetched_at_iso) # <<>>
    THEN Val(key.fetched_at_iso)
    ELSE record.meta.fetched_at_iso

RawFinalDir(key, record) ==
    _run_dir_from_parts(key.config_name, key.content_hash, RawFetchedAt(key, record))

\* a variant that builds the entry in the final directory itself
final_dir_in_place(final_dir, w) == final_dir

\* final_dir.name + ".tmp-<pid>-<rand>"; pid and rand are unique to the call
TmpDirName(final_dir, w) ==
    final_dir \o <<".", "tmp", "-", IF w = 1 THEN "p1" ELSE "p2", "-",
                   IF w = 1 THEN "r1" ELSE "r2">>

\* a variant that never sees the final directory
final_dir_never_exists(fs, final_dir) == FALSE

\* final_dir.exists(), the check save makes before it writes anything
final_dir_exists(fs, final_dir) == final_dir \in DOMAIN fs

\* a variant that accepts a key whose timestamp differs from the record's
timestamp_missing_only(key, record) == RawFetchedAt(key, record) = <<>>

\* the argument checks at the head of FileSystemRawCache.save
RawSaveArgError(key, record) ==
    \/ RawFetchedAt(key, record) = <<>>
    \/ /\ ~IsNone(key.fetched_at_iso)
       /\ Val(key.fetched_at_iso) # record.meta.fetched_at_iso

----------------------------------------------------------------------------
(* Readers of the raw cache *)

Miss == [kind |-> "CacheMiss"]
Corrupted == [kind |-> "CorruptedCache"]

\* a variant that takes one of several candidates
resolve_any_candidate(fs, key) ==
    IF ~IsNone(key.fetched_at_iso)
    THEN LET run_dir == _run_dir_from_parts(key.config_name, key.content_hash,
                                            Val(key.fetched_at_iso))
         IN IF run_dir \in DOMAIN fs
            THEN [found |-> TRUE, dir |-> run_dir]
            ELSE [found |-> FALSE, dir |-> <<>>]
    ELSE LET suffix == <<"-">> \o key.config_name \o <<"-">> \o key.content_hash
             candidates == { p \in DOMAIN fs : EndsWith(p, suffix) }
         IN IF candidates # {}
            THEN [found |-> TRUE, dir |-> CHOOSE p \in candidates : TRUE]
            ELSE [found |-> FALSE, dir |-> <<>>]

_resolve_run_dir(fs, key) ==
    IF ~IsNone(key.fetched_at_iso)
    THEN LET run_dir == _run_dir_from_parts(key.config_name, key.content_hash,
                                            Val(key.fetched_at_iso))
         IN IF run_dir \in DOMAIN fs
            THEN [found |-> TRUE, dir |-> run_dir]
            ELSE [found |-> FALSE, dir |-> <<>>]
    ELSE LET suffix == <<"-">> \o key.config_name \o <<"-">> \o key.content_hash
             candidates == { p \in DOMAIN fs : EndsWith(p, suffix) }
         IN IF Cardinality(candidates) = 1
            THEN [found |-> TRUE, dir |-> CHOOSE p \in candidates : TRUE]
            ELSE [found |-> FALSE, dir |-> <<>>]

has(fs, key) ==
    LET r == _resolve_run_dir(fs, key)
    IN IF ~r.found THEN FALSE
       ELSE ~IsNone(fs[r.dir].meta) /\ ~IsNone(fs[r.dir].payload)

RequiredRawFields ==
    {"source_name", "fetched_at_iso", "content_type", "encoding", "cache_path", "meta"}

\* a variant that accepts every payload
payload_checksum_ignored(payload, hex_digest) == TRUE

\* got == hex_digest, the comparison at the end of load
payload_checksum_ok(payload, hex_digest) == _sha256_hex(payload) = hex_digest

load(fs, key) ==
    LET r == _resolve_run_dir(fs, key)
    IN IF ~r.found THEN Miss
       ELSE IF IsNone(fs[r.dir].meta) \/ IsNone(fs[r.dir].payload) THEN Miss
       ELSE
         LET meta_obj == Val(fs[r.dir].meta)
             payload == Val(fs[r.dir].payload)
         IN IF ~IsJObj(meta_obj) THEN Corrupted
            ELSE IF "checksum" \notin DOMAIN meta_obj.v THEN Corrupted
            ELSE IF ~IsJObj(meta_obj.v.checksum) THEN Corrupted
            ELSE IF \/ {"algo", "hex"} \ DOMAIN meta_obj.v.checksum.v # {}
                    \/ meta_obj.v.checksum.v.algo # JStr(<<"sha256">>)
                    \/ ~IsJStr(meta_obj.v.checksum.v.hex)
                 THEN Corrupted
            ELSE IF "raw" \notin DOMAIN meta_obj.v THEN Corrupted
            ELSE IF ~IsJObj(meta_obj.v.raw) THEN Corrupted
            ELSE IF RequiredRawFields \ DOMAIN meta_obj.v.raw.v # {} THEN Corrupted
            ELSE IF ~IsJObj(meta_obj.v.raw.v.meta) THEN Corrupted
            ELSE
              LET raw_meta_obj == meta_obj.v.raw.v
                  hex_digest == meta_obj.v.checksum.v.hex.v
                  raw_meta ==
                      [source_name |-> PyStr(raw_meta_obj.source_name),
                       fetched_at_iso |-> PyStr(raw_meta_obj.fetched_at_iso),
                       content_type |-> PyStr(raw_meta_obj.content_type),
                       encoding |-> PyStr(raw_meta_obj.encoding),
                       cache_path |-> PyStr(raw_meta_obj.cache_path),
                       meta |-> [k \in DOMAIN raw_meta_obj.meta.v |->
                                    PyStr(raw_meta_obj.meta.v[k])]]
              IN IF ~payload_checksum_ok(payload, hex_digest) THEN Corrupted
                 ELSE [kind |-> "ok",
                       record |-> [payload |-> payload, meta |-> raw_meta]]

\* the keys _iter_keys_impl yields, in the order of sorted(base_dir.iterdir())
RECURSIVE IterKeysOver(_, _, _)
IterKeysOver(fs, dirs, config_name) ==
    IF dirs = <<>> THEN <<>>
    ELSE
      LET p == Head(dirs)
          rest == IterKeysOver(fs, Tail(dirs), config_name)
      IN IF SplitCount(p) < 3 THEN rest
         ELSE IF IsNone(fs[p].meta) THEN rest
         ELSE
           LET meta_obj == Val(fs[p].meta)
           IN IF ~IsJObj(meta_obj) THEN rest
              ELSE IF {"key", "raw"} \ DOMAIN meta_obj.v # {} THEN rest
              ELSE IF ~IsJObj(meta_obj.v.key) \/ ~IsJObj(meta_obj.v.raw) THEN rest
              ELSE
                LET key_obj == meta_obj.v.key.v
                    raw_obj == meta_obj.v.raw.v
                IN IF \/ {"config_name", "content_hash"} \ DOMAIN key_obj # {}
                      \/ "fetched_at_iso" \notin DOMAIN raw_obj
                   THEN rest
                   ELSE IF \/ ~IsJStr(key_obj.config_name)
                           \/ ~IsJStr(key_obj.content_hash)
                           \/ ~IsJStr(raw_obj.fetched_at_iso)
                   THEN rest
                   ELSE IF ~IsNone(config_name) /\ key_obj.config_name.v # Val(config_name)
                   THEN rest
                   ELSE << [config_name |-> key_obj.config_name.v,
                            content_hash |-> key_obj.content_hash.v,
                            fetched_at_iso |-> Some(raw_obj.fetched_at_iso.v)] >> \o rest

\* a variant that ignores the config_name filter
_iter_keys_impl_unfiltered(fs, config_name) ==
    IterKeysOver(fs, SortedSeq(DOMAIN fs), None)

_iter_keys_impl(fs, config_name) ==
    IterKeysOver(fs, SortedSeq(DOMAIN fs), config_name)

----------------------------------------------------------------------------
(* File-system steps of FileSystemRawCache.save, in program order.  Each   *)
(* is one system call (or one library call that ends in one).              *)

RenameDir(fs, tmp_dir, final_dir) ==
    [d \in (DOMAIN fs \ {tmp_dir}) \cup {final_dir} |->
        IF d = final_dir THEN fs[tmp_dir] ELSE fs[d]]

\* a variant of the finally clause that leaves the directory in place
rmtree_skipped(fs, dir) == fs

Rmtree(fs, dir) == [d \in DOMAIN fs \ {dir} |-> fs[d]]

RawSteps == <<"mkdir", "payload", "meta_tmp", "meta_replace", "rename">>

\* the directory tree after `step` of save(key, record) ran to completion
RawStepFs(fs, step, key, record, tmp_dir) ==
    CASE step = "mkdir" ->
           \* tmp_dir.mkdir(parents=True, exist_ok=False)
           (tmp_dir :> EmptyRawDir) @@ fs
      [] step = "payload" ->
           \* payload_path.write_bytes(payload)
           [fs EXCEPT ![tmp_dir].payload = Some(record.payload)]
      [] step = "meta_tmp" ->
           \* _write_json_atomic: tmp.write_text(data)
           [fs EXCEPT ![tmp_dir].meta_tmp =
               Some(RawMetaObj(key, record, RawFetchedAt(key, record)))]
      [] step = "meta_replace" ->
           \* _write_json_atomic: os.replace(tmp, path)
           [fs EXCEPT ![tmp_dir] =
               [@ EXCEPT !.meta = fs[tmp_dir].meta_tmp, !.meta_tmp = None]]
      [] step = "rename" ->
           \* os.rename(tmp_dir, final_dir)
           RenameDir(fs, tmp_dir, RawFinalDir(key, record))

\* the directory tree after a write of `step` failed with an I/O error
\* (disk full, permission): the file exists but is cut short
RawStepFailsFs(fs, step, tmp_dir) ==
    IF step = "payload"
    THEN [fs EXCEPT ![tmp_dir].payload = Some(<<>>)]
    ELSE [fs EXCEPT ![tmp_dir].meta_tmp = Some(Truncated)]

\* the directory tree after the first n steps of save(key, record)
RECURSIVE RawRunFs(_, _, _, _, _)
RawRunFs(fs, n, key, record, tmp_dir) ==
    IF n = 0 THEN fs
    ELSE RawStepFs(RawRunFs(fs, n - 1, key, record, tmp_dir),
                   RawSteps[n], key, record, tmp_dir)

StepIndex(step) == CHOOSE i \in 1..Len(RawSteps) : RawSteps[i] = step

----------------------------------------------------------------------------
(* The preprocessed cache: cache/preprocess.py *)

JList(q) == [t |-> "list", v |-> q]
IsJList(j) == j.t = "list"

\* s.split("/")
RECURSIVE SplitSlash(_)
SplitSlash(s) ==
    IF \A i \in 1..Len(s) : s[i] # "/" THEN <<s>>
    ELSE LET i == CHOOSE j \in 1..Len(s) :
                     s[j] = "/" /\ \A k \in 1..(j - 1) : s[k] # "/"
         IN <<SubSeq(s, 1, i - 1)>> \o SplitSlash(SubSeq(s, i + 1, Len(s)))

\* the components pathlib keeps of a POSIX path: empty and "." components
\* are dropped (the root of an absolute path is told by IsAbsolute)
PathParts(name) ==
    SelectSeq(SplitSlash(name), LAMBDA c : c # <<>> /\ c # <<".">>)

IsAbsolute(name) == Len(name) > 0 /\ name[1] = "/"

_is_relative_safe_name(name) ==
    IF name = <<>> THEN FALSE
    ELSE IF IsAbsolute(name) THEN FALSE
    ELSE IF \E i \in 1..Len(PathParts(name)) : PathParts(name)[i] = <<".", ".">> THEN FALSE
    ELSE IF \E i \in 1..Len(PathParts(name)) : PathParts(name)[i] = <<>> THEN FALSE
    ELSE TRUE

\* artifact maps a backend can emit: none, one file, a file in a
\* subdirectory, two spellings of one path, a file that is also used as a
\* directory, and a name that climbs out of the artifacts directory
ArtifactMaps ==
    { <<>>,
      (<<"x">> :> <<1>>),
      (<<"x">> :> <<1>>) @@ (<<"d", "/", "y">> :> <<2>>),
      (<<"d", "/", "y">> :> <<2>>) @@ (<<"d", "/", "/", "y">> :> <<3>>),
      (<<"d">> :> <<1>>) @@ (<<"d", "/", "y">> :> <<2>>),
      (<<"x">> :> <<1>>) @@ (<<".", "/", "x">> :> <<2>>),
      (<<".", ".", "/", "x">> :> <<1>>),
      (<<"d", "/", ".", ".", "/", "y">> :> <<1>>),
      (<<"/", "x">> :> <<1>>),
      (<<>> :> <<1>>) }

ArtifactNames == UNION { DOMAIN a : a \in ArtifactMaps } \cup { <<>> }

PreprocessedCacheMeta(built_at_iso, extra) ==
    [built_at_iso |-> built_at_iso, schema_version |-> 1, extra |-> extra]

PreprocessedCacheMetas ==
    { PreprocessedCacheMeta(<<"1", ":", "0">>, JObj(<<>>)),
      PreprocessedCacheMeta(<<"2">>, JObj("ir_version" :> JInt(1))),
      PreprocessedCacheMeta(<<>>, JObj(<<>>)) }

EmptyPreDir ==
    [artifacts |-> FALSE, files |-> <<>>,
     manifest |-> None, manifest_tmp |-> None, meta |-> None, meta_tmp |-> None]

PreFinalDir(key, meta) ==
    _run_dir_from_parts(key.config_name, key.content_hash, meta.built_at_iso)

\* the argument checks at the head of FileSystemPreprocessedCache.save
PreSaveArgError(key, meta) ==
    \/ meta.built_at_iso = <<>>
    \/ /\ ~IsNone(key.fetched_at_iso)
       /\ Val(key.fetched_at_iso) # meta.built_at_iso

PreNamesInvalid(artifacts) ==
    \E name \in DOMAIN artifacts : ~_is_relative_safe_name(name)

ManifestObj(key, artifacts, meta) ==
    JObj([version |-> JInt(1),
          manifest |-> JObj([files |-> JList([i \in 1..Cardinality(DOMAIN artifacts) |->
                                        JStr(SortedSeq(DOMAIN artifacts)[i])])]),
          checksums |-> JObj([name \in DOMAIN artifacts |->
                        JObj([algo |-> JStr(<<"sha256">>),
                              hex |-> JStr(_sha256_hex(artifacts[name])),
                              size_bytes |-> JInt(Len(artifacts[name]))])]),
          key |-> JObj([config_name |-> JStr(key.config_name),
                        content_hash |-> JStr(key.content_hash),
                        fetched_at_iso |-> JStr(meta.built_at_iso)])])

PreMetaObj(key, meta) ==
    JObj([version |-> JInt(1),
          preprocessed |-> JObj([built_at_iso |-> JStr(meta.built_at_iso),
                                 schema_version |-> JInt(meta.schema_version),
                                 extra |-> meta.extra]),
          key |-> JObj([config_name |-> JStr(key.config_name),
                        content_hash |-> JStr(key.content_hash),
                        fetched_at_iso |-> JStr(meta.built_at_iso)])])

Step(op, name) == [op |-> op, name |-> name]

\* the file-system steps of save(key, artifacts, meta), in program order
PreStepsOf(artifacts) ==
    <<Step("mkdir", <<>>), Step("artifacts_dir", <<>>)>>
    \o [i \in 1..Cardinality(DOMAIN artifacts) |->
           Step("artifact", SortedSeq(DOMAIN artifacts)[i])]
    \o <<Step("manifest_tmp", <<>>), Step("manifest_replace", <<>>),
         Step("meta_tmp", <<>>), Step("meta_replace", <<>>), Step("rename", <<>>)>>

IsProperPrefix(a, b) == Len(a) < Len(b) /\ SubSeq(b, 1, Len(a)) = a

\* the exception, if any, that _ensure_parent_dir / write_bytes raise for an
\* artifact path inside the directory whose files are `files`
ArtifactWriteError(files, name) ==
    LET parts == PathParts(name)
    IN IF \E f \in DOMAIN files : IsProperPrefix(f, parts)
       THEN \* a parent of the target is a regular file: mkdir(exist_ok=True)
            "FileExistsError"
       ELSE IF parts = <<>> \/ \E f \in DOMAIN files : IsProperPrefix(parts, f)
       THEN \* the target is a directory
            "IsADirectoryError"
       ELSE "none"

PreStepError(fs, step, tmp_dir) ==
    IF step.op = "artifact"
    THEN ArtifactWriteError(fs[tmp_dir].files, step.name)
    ELSE "none"

\* the directory tree after `step` of save(key, artifacts, meta) ran
PreStepFs(fs, step, key, artifacts, meta, tmp_dir) ==
    CASE step.op = "mkdir" ->
           \* tmp_dir.mkdir(parents=True, exist_ok=False)
           (tmp_dir :> EmptyPreDir) @@ fs
      [] step.op = "artifacts_dir" ->
           \* artifacts_root.mkdir(parents=True, exist_ok=True)
           [fs EXCEPT ![tmp_dir].artifacts = TRUE]
      [] step.op = "artifact" ->
           \* _ensure_parent_dir(rel_path); rel_path.write_bytes(content)
           [fs EXCEPT ![tmp_dir].files =
               (PathParts(step.name) :> artifacts[step.name]) @@ @]
      [] step.op = "manifest_tmp" ->
           [fs EXCEPT ![tmp_dir].manifest_tmp = Some(ManifestObj(key, artifacts, meta))]
      [] step.op = "manifest_replace" ->
           [fs EXCEPT ![tmp_dir] =
               [@ EXCEPT !.manifest = fs[tmp_dir].manifest_tmp, !.manifest_tmp = None]]
      [] step.op = "meta_tmp" ->
           [fs EXCEPT ![tmp_dir].meta_tmp = Some(PreMetaObj(key, meta))]
      [] step.op = "meta_replace" ->
           [fs EXCEPT ![tmp_dir] =
               [@ EXCEPT !.meta = fs[tmp_dir].meta_tmp, !.meta_tmp = None]]
      [] step.op = "rename" ->
           \* os.rename(tmp_dir, final_dir)
           RenameDir(fs, tmp_dir, PreFinalDir(key, meta))

\* the steps that write file content and so can fail with an I/O error
PreWriteOps == {"artifact", "manifest_tmp", "meta_tmp"}

\* the directory tree after the write of `step` failed: the file is cut short
PreStepFailsFs(fs, step, tmp_dir) ==
    CASE step.op = "artifact" ->
           [fs EXCEPT ![tmp_dir].files = (PathParts(step.name) :> <<>>) @@ @]
      [] step.op = "manifest_tmp" ->
           [fs EXCEPT ![tmp_dir].manifest_tmp = Some(Truncated)]
      [] step.op = "meta_tmp" ->
           [fs EXCEPT ![tmp_dir].meta_tmp = Some(Truncated)]

\* the index of the first step that raises by itself, or 0
RECURSIVE PreRunFs(_, _, _, _, _, _)
PreRunFs(fs, n, key, artifacts, meta, tmp_dir) ==
    IF n = 0 THEN fs
    ELSE PreStepFs(PreRunFs(fs, n - 1, key, artifacts, meta, tmp_dir),
                   PreStepsOf(artifacts)[n], key, artifacts, meta, tmp_dir)

PreFirstError(fs, key, artifacts, meta, tmp_dir) ==
    LET steps == PreStepsOf(artifacts)
        bad == { n \in 1..Len(steps) :
                   PreStepError(PreRunFs(fs, n - 1, key, artifacts, meta, tmp_dir),
                                steps[n], tmp_dir) # "none" }
    IN IF bad = {} THEN 0 ELSE CHOOSE n \in bad : \A m \in bad : n <= m

\* the except clauses of save: which cache error an exception becomes
SaveErrorOf(exc) ==
    IF exc = "FileExistsError" THEN "ConcurrentWrite" ELSE "CorruptedCache"

(* Readers of the preprocessed cache; _resolve_run_dir is the same code as *)
(* in raw.py                                                               *)

pre_has(fs, key) ==
    LET r == _resolve_run_dir(fs, key)
    IN IF ~r.found THEN FALSE
       ELSE /\ ~IsNone(fs[r.dir].meta)
            /\ ~IsNone(fs[r.dir].manifest)
            /\ fs[r.dir].artifacts

load_manifest(fs, key) ==
    LET r == _resolve_run_dir(fs, key)
    IN IF ~r.found THEN Miss
       ELSE IF IsNone(fs[r.dir].manifest) THEN Miss
       ELSE
         LET obj == Val(fs[r.dir].manifest)
         IN IF ~IsJObj(obj) THEN Corrupted
            ELSE IF "manifest" \notin DOMAIN obj.v THEN Corrupted
            ELSE IF ~IsJObj(obj.v.manifest) THEN Corrupted
            ELSE IF "files" \notin DOMAIN obj.v.manifest.v THEN Corrupted
            ELSE IF ~IsJList(obj.v.manifest.v.files) THEN Corrupted
            ELSE
              LET files == obj.v.manifest.v.files.v
              IN IF \E i \in 1..Len(files) : ~IsJStr(files[i]) THEN Corrupted
                 ELSE IF \E i \in 1..Len(files) : ~_is_relative_safe_name(files[i].v)
                 THEN Corrupted
                 ELSE [kind |-> "ok", files |-> [i \in 1..Len(files) |-> files[i].v]]

\* a variant that accepts every file content
artifact_checksum_ignored(data, hex_digest) == TRUE

\* got == hex_digest, the comparison at the end of load_artifact
artifact_checksum_ok(data, hex_digest) == _sha256_hex(data) = hex_digest

load_artifact(fs, key, name) ==
    IF ~_is_relative_safe_name(name) THEN Miss
    ELSE
      LET r == _resolve_run_dir(fs, key)
      IN IF ~r.found THEN Miss
         ELSE IF IsNone(fs[r.dir].manifest) THEN Miss
         ELSE
           LET manifest_obj == Val(fs[r.dir].manifest)
           IN IF ~IsJObj(manifest_obj) THEN Corrupted
              ELSE IF "checksums" \notin DOMAIN manifest_obj.v THEN Corrupted
              ELSE IF ~IsJObj(manifest_obj.v.checksums) THEN Corrupted
              ELSE IF name \notin DOMAIN manifest_obj.v.checksums.v THEN Miss
              ELSE
                LET checksum == manifest_obj.v.checksums.v[name]
                IN IF ~IsJObj(checksum) THEN Miss
                   ELSE IF \/ {"algo", "hex"} \ DOMAIN checksum.v # {}
                           \/ checksum.v.algo # JStr(<<"sha256">>)
                           \/ ~IsJStr(checksum.v.hex)
                   THEN Corrupted
                   ELSE IF PathParts(name) \notin DOMAIN fs[r.dir].files THEN Miss
                   ELSE
                     LET data == fs[r.dir].files[PathParts(name)]
                     IN IF ~artifact_checksum_ok(data, checksum.v.hex.v) THEN Corrupted
                        ELSE [kind |-> "ok", data |-> data]

read_meta(fs, key) ==
    LET r == _resolve_run_dir(fs, key)
    IN IF ~r.found THEN Miss
       ELSE IF IsNone(fs[r.dir].meta) THEN Miss
       ELSE
         LET obj == Val(fs[r.dir].meta)
         IN IF ~IsJObj(obj) THEN Corrupted
            ELSE IF "preprocessed" \notin DOMAIN obj.v THEN Corrupted
            ELSE IF ~IsJObj(obj.v.preprocessed) THEN Corrupted
            ELSE
              LET pp == obj.v.preprocessed.v
              IN IF {"built_at_iso", "schema_version"} \ DOMAIN pp # {} THEN Corrupted
                 ELSE IF ~IsJStr(pp.built_at_iso) THEN Corrupted
                 ELSE IF pp.built_at_iso.v = <<>> THEN Corrupted
                 ELSE IF pp.schema_version.t # "int" THEN Corrupted
                 ELSE
                   LET extra == IF "extra" \in DOMAIN pp THEN pp.extra
                                ELSE [t |-> "null", v |-> 0]
                   IN [kind |-> "ok",
                       meta |-> [built_at_iso |-> pp.built_at_iso.v,
                                 schema_version |-> pp.schema_version.v,
                                 extra |-> IF IsJObj(extra) THEN extra
                                           ELSE JObj("value" :> extra)]]

RECURSIVE PreIterKeysOver(_, _, _)
PreIterKeysOver(fs, dirs, config_name) ==
    IF dirs = <<>> THEN <<>>
    ELSE
      LET p == Head(dirs)
          rest == PreIterKeysOver(fs, Tail(dirs), config_name)
      IN IF IsNone(fs[p].meta) \/ IsNone(fs[p].manifest) \/ ~fs[p].artifacts THEN rest
         ELSE
           LET meta_obj == Val(fs[p].meta)
           IN IF ~IsJObj(meta_obj) THEN rest
              ELSE IF {"key", "preprocessed"} \ DOMAIN meta_obj.v # {} THEN rest
              ELSE IF ~IsJObj(meta_obj.v.key) \/ ~IsJObj(meta_obj.v.preprocessed) THEN rest
              ELSE
                LET key_obj == meta_obj.v.key.v
                    pp_obj == meta_obj.v.preprocessed.v
                IN IF \/ {"config_name", "content_hash"} \ DOMAIN key_obj # {}
                      \/ "built_at_iso" \notin DOMAIN pp_obj
                   THEN rest
                   ELSE IF \/ ~IsJStr(key_obj.config_name)
                           \/ ~IsJStr(key_obj.content_hash)
                           \/ ~IsJStr(pp_obj.built_at_iso)
                   THEN rest
                   ELSE IF ~IsNone(config_name) /\ key_obj.config_name.v # Val(config_name)
                   THEN rest
                   ELSE << [config_name |-> key_obj.config_name.v,
                            content_hash |-> key_obj.content_hash.v,
                            fetched_at_iso |-> Some(pp_obj.built_at_iso.v)] >> \o rest

pre_iter_keys_impl(fs, config_name) ==
    PreIterKeysOver(fs, SortedSeq(DOMAIN fs), config_name)

----------------------------------------------------------------------------
(* History and observations *)

NoRead == [cache |-> "none", op |-> "none"]

LogInit ==
    [saves |-> 0, tampers |-> 0, raw |-> <<>>, pre |-> <<>>,
     last |-> None, tampered |-> {}]

\* a save call that committed nothing
SaveFailed == [log EXCEPT !.saves = @ + 1, !.last = None]

RawCommit(key, record, w) ==
    [log EXCEPT !.saves = @ + 1,
                !.last = Some(RawFinalDir(key, record)),
                !.raw = (RawFinalDir(key, record) :>
                           [key |-> key, record |-> record, by |-> w]) @@ @]

SaveObs(key, arg, out) ==
    [cache |-> "raw", op |-> "save", key |-> key, arg |-> arg, out |-> out]

----------------------------------------------------------------------------
(* The raw cache used by one caller at a time: every call runs to its end  *)
(* before the next one starts (Spec).                                      *)

\* FileSystemRawCache.save(key, record) when no write fails
RawSave(key, record) ==
    /\ log.saves < MaxSaves
    /\ LET final_dir == RawFinalDir(key, record)
           tmp_dir == TmpDirName(final_dir, 1)
       IN IF RawSaveArgError(key, record)
          THEN /\ rd' = SaveObs(key, record, "ValueError")
               /\ log' = SaveFailed
               /\ UNCHANGED rawfs
          ELSE IF final_dir_exists(rawfs, final_dir)
          THEN /\ rd' = SaveObs(key, record, "ConcurrentWrite")
               /\ log' = SaveFailed
               /\ UNCHANGED rawfs
          ELSE /\ rawfs' = RawRunFs(rawfs, Len(RawSteps), key, record, tmp_dir)
               /\ rd' = SaveObs(key, record, "ok")
               /\ log' = RawCommit(key, record, 1)
    /\ UNCHANGED <<prefs, wr, kc, task, reg, ld, http, zip, batch>>

\* save(key, record) in which the write of `step` raises: the except clause
\* wraps the error as CorruptedCache and the finally clause removes tmp_dir
RawSaveIOError(key, record, step) ==
    /\ log.saves < MaxSaves
    /\ step \in {"payload", "meta_tmp"}
    /\ ~RawSaveArgError(key, record)
    /\ ~final_dir_exists(rawfs, RawFinalDir(key, record))
    /\ LET tmp_dir == TmpDirName(RawFinalDir(key, record), 1)
           before == RawRunFs(rawfs, StepIndex(step) - 1, key, record, tmp_dir)
       IN rawfs' = Rmtree(RawStepFailsFs(before, step, tmp_dir), tmp_dir)
    /\ rd' = SaveObs(key, record, "CorruptedCache")
    /\ log' = SaveFailed
    /\ UNCHANGED <<prefs, wr, kc, task, reg, ld, http, zip, batch>>

TamperData == Payloads \cup { <<9>> }

\* something outside the cache rewrites payload.bin of a committed entry
RawTamper(d, data) ==
    /\ log.tampers < MaxTampers
    /\ d \in DOMAIN log.raw
    /\ Val(rawfs[d].payload) # data
    /\ rawfs' = [rawfs EXCEPT ![d].payload = Some(data)]
    /\ log' = [log EXCEPT !.tampers = @ + 1, !.tampered = @ \cup {d}, !.last = None]
    /\ rd' = NoRead
    /\ UNCHANGED <<prefs, wr, kc, task, reg, ld, http, zip, batch>>

\* reader calls; each is one observation of the directory tree
RawHas(key) ==
    /\ rd' = [cache |-> "raw", op |-> "has", key |-> key, out |-> has(rawfs, key)]
    /\ UNCHANGED <<rawfs, prefs, wr, log, kc, task, reg, ld, http, zip, batch>>

RawLoad(key) ==
    /\ rd' = [cache |-> "raw", op |-> "load", key |-> key, out |-> load(rawfs, key)]
    /\ UNCHANGED <<rawfs, prefs, wr, log, kc, task, reg, ld, http, zip, batch>>

RawIterKeys(config_name) ==
    /\ rd' = [cache |-> "raw", op |-> "iter_keys", config_name |-> config_name,
              out |-> _iter_keys_impl(rawfs, config_name)]
    /\ UNCHANGED <<rawfs, prefs, wr, log, kc, task, reg, ld, http, zip, batch>>

ConfigFilters == {None} \cup {Some(n) : n \in ConfigNames}

----------------------------------------------------------------------------

IdleFrame ==
    [pc |-> "idle", op |-> "none", n |-> 0, key |-> <<>>, arg |-> <<>>, meta |-> <<>>,
     res |-> "none"]

CacheInit ==
    /\ rawfs = <<>>
    /\ prefs = <<>>
    /\ wr = [w \in Writers |-> IdleFrame]
    /\ rd = NoRead
    /\ log = LogInit

Init ==
    /\ CacheInit
    /\ kc = <<>>
    /\ task = <<>>
    /\ reg = <<>>
    /\ ld = <<>>
    /\ http = <<>>
    /\ zip = <<>>
    /\ batch = <<>>

Next ==
    \/ \E in \in RawSaveInputs : RawSave(in[1], in[2])
    \/ \E in \in RawSaveInputs, step \in {"payload", "meta_tmp"} :
          RawSaveIOError(in[1], in[2], step)
    \/ \E d \in DOMAIN rawfs, data \in TamperData : RawTamper(d, data)
    \/ \E key \in CacheKeys : RawHas(key)
    \/ \E key \in CacheKeys : RawLoad(key)
    \/ \E c \in ConfigFilters : RawIterKeys(c)

Spec == Init /\ [][Next]_vars

----------------------------------------------------------------------------
(* Properties of the raw cache under Spec *)

\* the entry a successful save(key, record) leaves in its run directory
RawEntry(key, record) ==
    [payload |-> Some(record.payload),
     meta |-> Some(RawMetaObj(key, record, RawFetchedAt(key, record))),
     meta_tmp |-> None]

\* rd is a load of the key of the save that last committed, with nothing but
\* reader calls in between
LoadFollowsSave ==
    /\ rd.op = "load"
    /\ ~IsNone(log.last)
    /\ rd.key = log.raw[Val(log.last)].key

RunDirSuffix(key) == <<"-">> \o key.config_name \o <<"-">> \o key.content_hash

\* key names one run directory: it carries a timestamp, or one directory
\* at most ends with -<config_name>-<content_hash>
Unambiguous(fs, key) ==
    \/ ~IsNone(key.fetched_at_iso)
    \/ Cardinality({ p \in DOMAIN fs : EndsWith(p, RunDirSuffix(key)) }) <= 1

\* C4 (as claimed): after a successful save(K, R), a following load(K)
\* returns R's payload and R's meta, field by field.
C4_RoundTrip_AsClaimed ==
    LoadFollowsSave =>
        rd.out = [kind |-> "ok", record |-> log.raw[Val(log.last)].record]

\* C4 (amended): after a successful save(K, R), a following load(K) returns
\* R's payload and meta whenever K carries a fetched_at_iso or no other run
\* directory ends with -<config_name>-<content_hash>; otherwise it raises
\* CacheMiss.
C4_RoundTrip ==
    LoadFollowsSave =>
        IF Unambiguous(rawfs, rd.key)
        THEN rd.out = [kind |-> "ok", record |-> log.raw[Val(log.last)].record]
        ELSE rd.out = Miss

\* a load right after a save under a key without timestamp returned the
\* record with the empty payload and the empty meta map
C4_Witness ==
    /\ LoadFollowsSave
    /\ IsNone(rd.key.fetched_at_iso)
    /\ rd.out.kind = "ok"
    /\ rd.out.record.payload = <<>>
    /\ DOMAIN rd.out.record.meta.meta = {}

StoredChecksum(fs, dir) == Val(fs[dir].meta).v.checksum.v.hex.v

\* C5: load never returns a payload whose SHA-256 differs from the checksum
\* in meta.json, and raises CorruptedCache when payload.bin of the entry the
\* key resolves to no longer hashes to that checksum.
C5_LoadVerifiesChecksum ==
    rd.op = "load" =>
        LET r == _resolve_run_dir(rawfs, rd.key)
        IN /\ rd.out.kind = "ok" =>
                /\ r.found
                /\ _sha256_hex(rd.out.record.payload) = StoredChecksum(rawfs, r.dir)
           /\ (r.found /\ r.dir \in DOMAIN log.raw
                 /\ _sha256_hex(Val(rawfs[r.dir].payload)) # StoredChecksum(rawfs, r.dir))
                => rd.out = Corrupted

\* a load of an entry whose payload.bin was rewritten raised CorruptedCache
C5_Witness ==
    /\ rd.op = "load"
    /\ rd.out = Corrupted
    /\ _resolve_run_dir(rawfs, rd.key).found
    /\ _resolve_run_dir(rawfs, rd.key).dir \in log.tampered

\* entries keep what their save wrote (until something outside rewrites them)
EntriesUntouched ==
    \A d \in DOMAIN log.raw \ log.tampered :
        rawfs[d] = RawEntry(log.raw[d].key, log.raw[d].record)

\* rd is a save under a key that an earlier save committed an entry for
LaterSave(d) ==
    /\ rd.op = "save"
    /\ d \in DOMAIN log.raw
    /\ log.raw[d].key = rd.key
    /\ ~(rd.out = "ok" /\ d = RawFinalDir(rd.key, rd.arg))

SeqToSet(q) == { q[i] : i \in 1..Len(q) }

\* the key iter_keys reports for a committed entry
CommittedKey(d) ==
    [config_name |-> log.raw[d].key.config_name,
     content_hash |-> log.raw[d].key.content_hash,
     fetched_at_iso |-> Some(RawFetchedAt(log.raw[d].key, log.raw[d].record))]

SavedKeys(config_name) ==
    { CommittedKey(d) : d \in { e \in DOMAIN log.raw :
          IsNone(config_name) \/ log.raw[e].key.config_name = Val(config_name) } }

\* C7: iter_keys(cfg) yields exactly the keys of the successful saves with
\* that config_name (all of them for None), each once, with the
\* fetched_at_iso the entry was saved with.
C7_IterKeysExact ==
    rd.op = "iter_keys" =>
        /\ SeqToSet(rd.out) = SavedKeys(rd.config_name)
        /\ Len(rd.out) = Cardinality(SavedKeys(rd.config_name))

\* a filtered iter_keys left out the entry of the other config and reported
\* a timestamp that differs from the one in the directory name
C7_Witness ==
    /\ rd.op = "iter_keys"
    /\ ~IsNone(rd.config_name)
    /\ Len(rd.out) = 1
    /\ Cardinality(DOMAIN log.raw) = 2
    /\ Val(rd.out[1].fetched_at_iso) # _safe_ts_for_path(Val(rd.out[1].fetched_at_iso))

\* rd is has(K) or load(K) on the raw cache
RawLookup == rd.cache = "raw" /\ rd.op \in {"has", "load"}

\* what has / load report when K resolves to the committed, unmodified entry d
FoundEntry(d) ==
    IF rd.op = "has" THEN rd.out = TRUE
    ELSE rd.out = [kind |-> "ok", record |-> log.raw[d].record]

\* what has / load report when K resolves to nothing
FoundNothing == IF rd.op = "has" THEN rd.out = FALSE ELSE rd.out = Miss

\* the committed entries saved for (config_name, content_hash) of K
EntriesFor(key) ==
    { d \in DOMAIN log.raw : /\ log.raw[d].key.config_name = key.config_name
                             /\ log.raw[d].key.content_hash = key.content_hash }

\* the committed entries whose directory name ends with
\* -<config_name>-<content_hash> of K
EntriesEndingWith(key) ==
    { d \in DOMAIN log.raw : EndsWith(d, RunDirSuffix(key)) }

EntryNamedAfterKey(fs, d) ==
    /\ ~IsNone(fs[d].meta)
    /\ LET meta == Val(fs[d].meta).v
       IN /\ meta.key.v.fetched_at_iso = meta.raw.v.fetched_at_iso
          /\ d = _run_dir_from_parts(meta.key.v.config_name.v,
                                     meta.key.v.content_hash.v,
                                     meta.key.v.fetched_at_iso.v)

\* the key's timestamp differs from the record's, or neither has one
TimestampsDisagree(key, record) ==
    \/ /\ ~IsNone(key.fetched_at_iso)
       /\ Val(key.fetched_at_iso) # record.meta.fetched_at_iso
    \/ /\ IsNone(key.fetched_at_iso)
       /\ record.meta.fetched_at_iso = <<>>

SaveRejectedUnwritten ==
    (rd'.op = "save" /\ rd'.cache = "raw" /\ TimestampsDisagree(rd'.key, rd'.arg))
        => (rd'.out = "ValueError" /\ rawfs' = rawfs)

\* C32: every entry committed by raw.save has meta.key.fetched_at_iso equal
\* to meta.raw.fetched_at_iso and lives in the directory
\* <safe_ts>-<config_name>-<content_hash> built from that timestamp; a save
\* whose key carries a timestamp different from the record's, or with no
\* timestamp in either place, raises and writes nothing.
C32_TimestampAgreement ==
    /\ [](\A d \in DOMAIN log.raw : d \in DOMAIN rawfs /\ EntryNamedAfterKey(rawfs, d))
    /\ [][SaveRejectedUnwritten]_vars

C32_Witness ==
    /\ rd.op = "save" /\ rd.cache = "raw"
    /\ rd.key.fetched_at_iso = Some(<<"1", ":", "0">>)
    /\ rd.arg.meta.fetched_at_iso = <<"1", "0">>
    /\ rd.out = "ValueError"
    /\ \E d \in DOMAIN log.raw : log.raw[d].key.fetched_at_iso = None

\* the key an entry is stored under: the key of its save, with the
\* timestamp the save settled on
StoredKey(d) ==
    Key(log.raw[d].key.config_name, log.raw[d].key.content_hash,
        Some(RawFetchedAt(log.raw[d].key, log.raw[d].record)))

\* key names the entry stored under `stored`
SameRun(key, stored) ==
    /\ key.config_name = stored.config_name
    /\ key.content_hash = stored.content_hash
    /\ IsNone(key.fetched_at_iso) \/ key.fetched_at_iso = stored.fetched_at_iso

\* C34: distinct CacheKeys never resolve to the same run directory: has(K)
\* and load(K) resolve K only to an entry saved under a key with the same
\* config_name and content_hash (and the same fetched_at_iso when K has
\* one), and a save under K1 never makes a save under a different key K2
\* fail with ConcurrentWrite, also for config names that contain '-' and
\* timestamps that differ only in ':' or '.'.
C34_DistinctKeysDistinctDirs ==
    /\ (RawLookup /\ _resolve_run_dir(rawfs, rd.key).found) =>
          SameRun(rd.key, StoredKey(_resolve_run_dir(rawfs, rd.key).dir))
    /\ (rd.cache = "raw" /\ rd.op = "save" /\ rd.out = "ConcurrentWrite") =>
          SameRun(rd.key, StoredKey(RawFinalDir(rd.key, rd.arg)))

----------------------------------------------------------------------------
(* The preprocessed cache used by one caller at a time (SpecPre) *)

PreCommit(key, artifacts, meta) ==
    [log EXCEPT !.saves = @ + 1,
                !.last = Some(PreFinalDir(key, meta)),
                !.pre = (PreFinalDir(key, meta) :>
                           [key |-> key, artifacts |-> artifacts, meta |-> meta]) @@ @]

PreSaveObs(key, artifacts, meta, out) ==
    [cache |-> "pre", op |-> "save", key |-> key, arg |-> artifacts, meta |-> meta,
     out |-> out]

\* FileSystemPreprocessedCache.save(key, artifacts, meta) when no write
\* suffers an I/O fault
PreSave(key, artifacts, meta) ==
    /\ log.saves < MaxSaves
    /\ IF PreSaveArgError(key, meta)
       THEN /\ rd' = PreSaveObs(key, artifacts, meta, "ValueError")
            /\ log' = SaveFailed
            /\ UNCHANGED prefs
       ELSE IF final_dir_exists(prefs, PreFinalDir(key, meta))
       THEN /\ rd' = PreSaveObs(key, artifacts, meta, "ConcurrentWrite")
            /\ log' = SaveFailed
            /\ UNCHANGED prefs
       ELSE IF PreNamesInvalid(artifacts)
       THEN /\ rd' = PreSaveObs(key, artifacts, meta, "CorruptedCache")
            /\ log' = SaveFailed
            /\ UNCHANGED prefs
       ELSE
         LET tmp_dir == TmpDirName(PreFinalDir(key, meta), 1)
             steps == PreStepsOf(artifacts)
             n == PreFirstError(prefs, key, artifacts, meta, tmp_dir)
         IN IF n = 0
            THEN /\ prefs' = PreRunFs(prefs, Len(steps), key, artifacts, meta, tmp_dir)
                 /\ rd' = PreSaveObs(key, artifacts, meta, "ok")
                 /\ log' = PreCommit(key, artifacts, meta)
            ELSE LET before == PreRunFs(prefs, n - 1, key, artifacts, meta, tmp_dir)
                 IN /\ prefs' = Rmtree(before, tmp_dir)
                    /\ rd' = PreSaveObs(key, artifacts, meta,
                                SaveErrorOf(PreStepError(before, steps[n], tmp_dir)))
                    /\ log' = SaveFailed
    /\ UNCHANGED <<rawfs, wr, kc, task, reg, ld, http, zip, batch>>

\* save(key, artifacts, meta) in which the write of step n raises OSError
PreSaveIOError(key, artifacts, meta, n) ==
    /\ log.saves < MaxSaves
    /\ ~PreSaveArgError(key, meta)
    /\ ~final_dir_exists(prefs, PreFinalDir(key, meta))
    /\ ~PreNamesInvalid(artifacts)
    /\ n \in 1..Len(PreStepsOf(artifacts))
    /\ PreStepsOf(artifacts)[n].op \in PreWriteOps
    /\ LET tmp_dir == TmpDirName(PreFinalDir(key, meta), 1)
           first == PreFirstError(prefs, key, artifacts, meta, tmp_dir)
           before == PreRunFs(prefs, n - 1, key, artifacts, meta, tmp_dir)
       IN /\ first = 0 \/ n < first
          /\ prefs' = Rmtree(PreStepFailsFs(before, PreStepsOf(artifacts)[n], tmp_dir),
                             tmp_dir)
    /\ rd' = PreSaveObs(key, artifacts, meta, "CorruptedCache")
    /\ log' = SaveFailed
    /\ UNCHANGED <<rawfs, wr, kc, task, reg, ld, http, zip, batch>>

PreTamperData == { <<1>>, <<9>> }

\* something outside the cache rewrites one artifact file of an entry
PreTamper(d, f, data) ==
    /\ log.tampers < MaxTampers
    /\ d \in DOMAIN log.pre
    /\ f \in DOMAIN prefs[d].files
    /\ prefs[d].files[f] # data
    /\ prefs' = [prefs EXCEPT ![d].files[f] = data]
    /\ log' = [log EXCEPT !.tampers = @ + 1, !.tampered = @ \cup {<<d, f>>},
                          !.last = None]
    /\ rd' = NoRead
    /\ UNCHANGED <<rawfs, wr, kc, task, reg, ld, http, zip, batch>>

PreHas(key) ==
    /\ rd' = [cache |-> "pre", op |-> "has", key |-> key, out |-> pre_has(prefs, key)]
    /\ UNCHANGED <<rawfs, prefs, wr, log, kc, task, reg, ld, http, zip, batch>>

PreLoadManifest(key) ==
    /\ rd' = [cache |-> "pre", op |-> "load_manifest", key |-> key,
              out |-> load_manifest(prefs, key)]
    /\ UNCHANGED <<rawfs, prefs, wr, log, kc, task, reg, ld, http, zip, batch>>

PreLoadArtifact(key, name) ==
    /\ rd' = [cache |-> "pre", op |-> "load_artifact", key |-> key, name |-> name,
              out |-> load_artifact(prefs, key, name)]
    /\ UNCHANGED <<rawfs, prefs, wr, log, kc, task, reg, ld, http, zip, batch>>

PreReadMeta(key) ==
    /\ rd' = [cache |-> "pre", op |-> "read_meta", key |-> key,
              out |-> read_meta(prefs, key)]
    /\ UNCHANGED <<rawfs, prefs, wr, log, kc, task, reg, ld, http, zip, batch>>

PreIterKeys(config_name) ==
    /\ rd' = [cache |-> "pre", op |-> "iter_keys", config_name |-> config_name,
              out |-> pre_iter_keys_impl(prefs, config_name)]
    /\ UNCHANGED <<rawfs, prefs, wr, log, kc, task, reg, ld, http, zip, batch>>

AllFileParts == { PathParts(name) : name \in ArtifactNames }

ArtifactsNamed(names) ==
    CHOOSE a \in ArtifactMaps : DOMAIN a = names

MetaBuiltAt(built_at_iso) ==
    CHOOSE m \in PreprocessedCacheMetas : m.built_at_iso = built_at_iso

\* the save calls tried: keys with and without timestamp, two runs of one
\* (config_name, content_hash), a config name with a dash, every artifact
\* map, and metas that the argument checks refuse
PreSaveInputs ==
    { <<Key(<<"b", "-", "a">>, <<"h">>, None),
        ArtifactsNamed({<<"x">>, <<".", "/", "x">>}), MetaBuiltAt(<<"2">>)>> } \cup
    { <<Key(<<"a">>, <<"h">>, None),
        ArtifactsNamed({<<"x">>}), MetaBuiltAt(<<"1", ":", "0">>)>>,
      <<Key(<<"a">>, <<"h">>, Some(<<"1", ":", "0">>)),
        ArtifactsNamed({<<"x">>, <<"d", "/", "y">>}), MetaBuiltAt(<<"1", ":", "0">>)>>,
      <<Key(<<"a">>, <<"h">>, None),
        ArtifactsNamed({<<"d", "/", "y">>, <<"d", "/", "/", "y">>}), MetaBuiltAt(<<"2">>)>>,
      <<Key(<<"b", "-", "a">>, <<"h">>, Some(<<"2">>)),
        ArtifactsNamed({<<"x">>, <<"d", "/", "y">>}), MetaBuiltAt(<<"2">>)>>,
      <<Key(<<"a">>, <<"h">>, Some(<<"2">>)),
        ArtifactsNamed({<<".", ".", "/", "x">>}), MetaBuiltAt(<<"2">>)>>,
      <<Key(<<"a">>, <<"h">>, None),
        ArtifactsNamed({<<"d">>, <<"d", "/", "y">>}), MetaBuiltAt(<<"1", ":", "0">>)>>,
      <<Key(<<"a">>, <<"h">>, Some(<<"2">>)),
        ArtifactsNamed({<<"d", "/", ".", ".", "/", "y">>}), MetaBuiltAt(<<"2">>)>>,
      <<Key(<<"a">>, <<"h">>, Some(<<"2">>)),
        ArtifactsNamed({<<"/", "x">>}), MetaBuiltAt(<<"2">>)>>,
      <<Key(<<"a">>, <<"h">>, Some(<<"2">>)),
        ArtifactsNamed({<<>>}), MetaBuiltAt(<<"2">>)>>,
      <<Key(<<"a">>, <<"h">>, Some(<<"2">>)),
        ArtifactsNamed({}), MetaBuiltAt(<<"1", ":", "0">>)>>,
      <<Key(<<"a">>, <<"h">>, Some(<<"2">>)),
        ArtifactsNamed({}), MetaBuiltAt(<<"2">>)>>,
      <<Key(<<"a">>, <<"h">>, None),
        ArtifactsNamed({<<"x">>}), MetaBuiltAt(<<>>)>> }

PreReadKeys ==
    { Key(<<"a">>, <<"h">>, None), Key(<<"a">>, <<"h">>, Some(<<"1", ":", "0">>)),
      Key(<<"a">>, <<"h">>, Some(<<"2">>)), Key(<<"b", "-", "a">>, <<"h">>, None),
      Key(<<"b", "-", "a">>, <<"h">>, Some(<<"2">>)) }

PreReadNames ==
    { <<"x">>, <<"d", "/", "y">>, <<"d", "/", "/", "y">>, <<".", ".", "/", "x">>,
      <<".", "/", "x">> }

NextPre ==
    \/ \E in \in PreSaveInputs : PreSave(in[1], in[2], in[3])
    \/ \E in \in PreSaveInputs :
          \E n \in 1..Len(PreStepsOf(in[2])) : PreSaveIOError(in[1], in[2], in[3], n)
    \/ \E d \in DOMAIN prefs, f \in AllFileParts, data \in PreTamperData :
          PreTamper(d, f, data)
    \/ \E key \in PreReadKeys : PreHas(key)
    \/ \E key \in PreReadKeys : PreLoadManifest(key)
    \/ \E key \in PreReadKeys, name \in PreReadNames : PreLoadArtifact(key, name)
    \/ \E key \in PreReadKeys : PreReadMeta(key)
    \/ \E c \in ConfigFilters : PreIterKeys(c)

SpecPre == Init /\ [][NextPre]_vars

----------------------------------------------------------------------------
(* Properties of the preprocessed cache under SpecPre *)

\* the checksum manifest.json of run directory `dir` stores for `name`
ManifestChecksum(fs, dir, name) == Val(fs[dir].manifest).v.checksums.v[name].v.hex.v

\* rd is load_artifact(key, name) where key resolves to a saved entry and
\* name is listed in the manifest of that entry
ListedArtifactLoad ==
    /\ rd.op = "load_artifact"
    /\ _resolve_run_dir(prefs, rd.key).found
    /\ _resolve_run_dir(prefs, rd.key).dir \in DOMAIN log.pre
    /\ rd.name \in DOMAIN log.pre[_resolve_run_dir(prefs, rd.key).dir].artifacts

\* C10: for an entry and a name listed in its manifest, load_artifact
\* returns bytes that hash to the manifest checksum of that name or raises;
\* when the file of the name no longer hashes to that checksum it raises
\* CorruptedCache, and load_manifest of the same key still succeeds.
C10_ArtifactIntegrity ==
    ListedArtifactLoad =>
        LET dir == _resolve_run_dir(prefs, rd.key).dir
            sum == ManifestChecksum(prefs, dir, rd.name)
        IN /\ rd.out.kind = "ok" => _sha256_hex(rd.out.data) = sum
           /\ _sha256_hex(prefs[dir].files[PathParts(rd.name)]) # sum =>
                 /\ rd.out = Corrupted
                 /\ load_manifest(prefs, rd.key).kind = "ok"
                 /\ \E i \in 1..Len(load_manifest(prefs, rd.key).files) :
                       load_manifest(prefs, rd.key).files[i] = rd.name

\* load_artifact of a rewritten file in a subdirectory raised
\* CorruptedCache, under a key without timestamp
C10_Witness ==
    /\ ListedArtifactLoad
    /\ <<_resolve_run_dir(prefs, rd.key).dir, PathParts(rd.name)>> \in log.tampered
    /\ Len(PathParts(rd.name)) = 2
    /\ IsNone(rd.key.fetched_at_iso)
    /\ rd.out = Corrupted

\* the names the specification calls unsafe: empty, absolute, with a ".."
\* segment, or with an empty path component
NameUnsafeBySpec(name) ==
    \/ name = <<>>
    \/ IsAbsolute(name)
    \/ \E i \in 1..Len(SplitSlash(name)) :
          SplitSlash(name)[i] = <<".", ".">> \/ SplitSlash(name)[i] = <<>>

\* rd is a save that got past the argument checks and the final_dir.exists()
\* check with an artifact name that the specification calls unsafe
SaveOfUnsafeName ==
    /\ rd.cache = "pre" /\ rd.op = "save"
    /\ rd.out \notin {"ValueError", "ConcurrentWrite"}
    /\ \E name \in DOMAIN rd.arg : NameUnsafeBySpec(name)

\* C11: a save with an artifact name that is empty, absolute, has a ".."
\* segment or an empty path component raises CorruptedCache and creates no
\* directory, final or temporary.
C11_UnsafeNamesRejected ==
    SaveOfUnsafeName =>
        /\ rd.out = "CorruptedCache"
        /\ DOMAIN prefs = DOMAIN log.pre
        /\ IsNone(log.last)

\* the key of the entry in run directory d with the timestamp of its meta
KeyBuiltAt(d) ==
    Key(log.pre[d].key.config_name, log.pre[d].key.content_hash,
        Some(log.pre[d].meta.built_at_iso))

\* the entries that rd reads under their key with built_at_iso: entries
\* whose artifact names are safe in the specification's sense and whose
\* files nothing has rewritten since the save
EntriesRead ==
    { d \in DOMAIN log.pre :
         /\ rd.cache = "pre"
         /\ rd.op \in {"has", "load_manifest", "load_artifact", "read_meta"}
         /\ rd.key = KeyBuiltAt(d)
         /\ \A name \in DOMAIN log.pre[d].artifacts : ~NameUnsafeBySpec(name)
         /\ \A f \in AllFileParts : <<d, f>> \notin log.tampered }

\* C37: for every key K, artifact map A with safe names and meta M for
\* which save(K, A, M) succeeds, with K' = K with fetched_at_iso =
\* M.built_at_iso: load_manifest(K') returns exactly the names of A in
\* sorted order, load_artifact(K', n) returns A[n] for every name n,
\* read_meta(K') returns built_at_iso, schema_version and extra equal to M,
\* and has(K') is true.
C37_SavedEntryReadsBack ==
    \A d \in EntriesRead :
        LET A == log.pre[d].artifacts
            M == log.pre[d].meta
        IN /\ rd.op = "has" => rd.out = TRUE
           /\ rd.op = "load_manifest" =>
                 rd.out = [kind |-> "ok", files |-> SortedSeq(DOMAIN A)]
           /\ (rd.op = "load_artifact" /\ rd.name \in DOMAIN A) =>
                 rd.out = [kind |-> "ok", data |-> A[rd.name]]
           /\ rd.op = "read_meta" =>
                 rd.out = [kind |-> "ok",
                           meta |-> [built_at_iso |-> M.built_at_iso,
                                     schema_version |-> M.schema_version,
                                     extra |-> M.extra]]

----------------------------------------------------------------------------
(* Two callers of save on the same base directories, one system call at a  *)
(* time, with readers in between and a kill of the process (SpecRace).     *)
(* wr[w] is the frame of caller w: pc tells where it stands, n how many    *)
(* steps of its save have run, res how the call ended.                     *)

RaceRawInputs ==
    { <<Key(<<"a">>, <<"h">>, None),
        RawCacheRecord(<<>>, <<"1", ":", "0">>, <<>>)>>,
      <<Key(<<"a">>, <<"h">>, Some(<<"1", ":", "0">>)),
        RawCacheRecord(<<7>>, <<"1", ":", "0">>, (<<"d">> :> <<"x">>))>> }

RacePreInputs ==
    { <<Key(<<"a">>, <<"h">>, None),
        ArtifactsNamed({<<"x">>}), MetaBuiltAt(<<"1", ":", "0">>)>>,
      <<Key(<<"a">>, <<"h">>, Some(<<"1", ":", "0">>)),
        ArtifactsNamed({<<"x">>, <<"d", "/", "y">>}), MetaBuiltAt(<<"1", ":", "0">>)>> }

RaceReadKeys ==
    { Key(<<"a">>, <<"h">>, None), Key(<<"a">>, <<"h">>, Some(<<"1", ":", "0">>)) }

RaceFilters == { None, Some(<<"a">>) }

\* what os.rename(tmp_dir, final_dir) raises when final_dir is a directory
\* that is not empty: OSError(ENOTEMPTY) on POSIX, FileExistsError on Windows
RenameOntoExisting == { "OSError", "FileExistsError" }

Returned(f, res) == [f EXCEPT !.pc = "done", !.res = res]

FrameFinalDir(f) ==
    IF f.op = "raw" THEN RawFinalDir(f.key, f.arg) ELSE PreFinalDir(f.key, f.meta)

\* save(key, record) up to and including the final_dir.exists() check
RaceRawCall(w, key, record) ==
    /\ wr[w].pc = "idle"
    /\ LET f == [IdleFrame EXCEPT !.op = "raw", !.key = key, !.arg = record]
       IN wr' = [wr EXCEPT ![w] =
                   IF RawSaveArgError(key, record) THEN Returned(f, "ValueError")
                   ELSE IF final_dir_exists(rawfs, RawFinalDir(key, record))
                   THEN Returned(f, "ConcurrentWrite")
                   ELSE [f EXCEPT !.pc = "run"]]
    /\ rd' = NoRead
    /\ UNCHANGED <<rawfs, prefs, log, kc, task, reg, ld, http, zip, batch>>

\* the next of mkdir, write payload.bin, write the meta temp file, replace
RaceRawStep(w) ==
    /\ wr[w].op = "raw" /\ wr[w].pc = "run"
    /\ RawSteps[wr[w].n + 1] # "rename"
    /\ rawfs' = RawStepFs(rawfs, RawSteps[wr[w].n + 1], wr[w].key, wr[w].arg,
                          TmpDirName(FrameFinalDir(wr[w]), w))
    /\ wr' = [wr EXCEPT ![w].n = @ + 1]
    /\ rd' = NoRead
    /\ UNCHANGED <<prefs, log, kc, task, reg, ld, http, zip, batch>>

\* os.rename(tmp_dir, final_dir) and the except clauses of save
RaceRawRename(w) ==
    /\ wr[w].op = "raw" /\ wr[w].pc = "run"
    /\ RawSteps[wr[w].n + 1] = "rename"
    /\ IF FrameFinalDir(wr[w]) \in DOMAIN rawfs
       THEN /\ \E exc \in RenameOntoExisting :
                 wr' = [wr EXCEPT ![w].pc = "cleanup", ![w].res = SaveErrorOf(exc)]
            /\ UNCHANGED rawfs
       ELSE /\ rawfs' = RawStepFs(rawfs, "rename", wr[w].key, wr[w].arg,
                                  TmpDirName(FrameFinalDir(wr[w]), w))
            /\ wr' = [wr EXCEPT ![w] = Returned(@, "ok")]
    /\ rd' = NoRead
    /\ UNCHANGED <<prefs, log, kc, task, reg, ld, http, zip, batch>>

\* save(key, artifacts, meta) up to the check of the artifact names
RacePreCall(w, key, artifacts, meta) ==
    /\ wr[w].pc = "idle"
    /\ LET f == [IdleFrame EXCEPT !.op = "pre", !.key = key, !.arg = artifacts,
                                  !.meta = meta]
       IN wr' = [wr EXCEPT ![w] =
                   IF PreSaveArgError(key, meta) THEN Returned(f, "ValueError")
                   ELSE IF final_dir_exists(prefs, PreFinalDir(key, meta))
                   THEN Returned(f, "ConcurrentWrite")
                   ELSE IF PreNamesInvalid(artifacts) THEN Returned(f, "CorruptedCache")
                   ELSE [f EXCEPT !.pc = "run"]]
    /\ rd' = NoRead
    /\ UNCHANGED <<rawfs, prefs, log, kc, task, reg, ld, http, zip, batch>>

\* the next step of save before the rename
RacePreStep(w) ==
    /\ wr[w].op = "pre" /\ wr[w].pc = "run"
    /\ LET step == PreStepsOf(wr[w].arg)[wr[w].n + 1]
           tmp_dir == TmpDirName(FrameFinalDir(wr[w]), w)
       IN /\ step.op # "rename"
          /\ IF PreStepError(prefs, step, tmp_dir) # "none"
             THEN /\ wr' = [wr EXCEPT ![w].pc = "cleanup",
                               ![w].res = SaveErrorOf(PreStepError(prefs, step, tmp_dir))]
                  /\ UNCHANGED prefs
             ELSE /\ prefs' = PreStepFs(prefs, step, wr[w].key, wr[w].arg, wr[w].meta,
                                        tmp_dir)
                  /\ wr' = [wr EXCEPT ![w].n = @ + 1]
    /\ rd' = NoRead
    /\ UNCHANGED <<rawfs, log, kc, task, reg, ld, http, zip, batch>>

RacePreRename(w) ==
    /\ wr[w].op = "pre" /\ wr[w].pc = "run"
    /\ PreStepsOf(wr[w].arg)[wr[w].n + 1].op = "rename"
    /\ IF FrameFinalDir(wr[w]) \in DOMAIN prefs
       THEN /\ \E exc \in RenameOntoExisting :
                 wr' = [wr EXCEPT ![w].pc = "cleanup", ![w].res = SaveErrorOf(exc)]
            /\ UNCHANGED prefs
       ELSE /\ prefs' = PreStepFs(prefs, Step("rename", <<>>), wr[w].key, wr[w].arg,
                                  wr[w].meta, TmpDirName(FrameFinalDir(wr[w]), w))
            /\ wr' = [wr EXCEPT ![w] = Returned(@, "ok")]
    /\ rd' = NoRead
    /\ UNCHANGED <<rawfs, log, kc, task, reg, ld, http, zip, batch>>

\* a write of payload.bin, an artifact, or the temp file of manifest.json or
\* meta.json raises an I/O error: the file is left cut short, the except
\* clause wraps the error as CorruptedCache and the finally clause runs next
RaceWriteFails(w) ==
    /\ wr[w].pc = "run"
    /\ LET tmp_dir == TmpDirName(FrameFinalDir(wr[w]), w)
       IN IF wr[w].op = "raw"
          THEN /\ RawSteps[wr[w].n + 1] \in {"payload", "meta_tmp"}
               /\ rawfs' = RawStepFailsFs(rawfs, RawSteps[wr[w].n + 1], tmp_dir)
               /\ UNCHANGED prefs
          ELSE /\ PreStepsOf(wr[w].arg)[wr[w].n + 1].op \in PreWriteOps
               /\ PreStepError(prefs, PreStepsOf(wr[w].arg)[wr[w].n + 1], tmp_dir) = "none"
               /\ prefs' = PreStepFailsFs(prefs, PreStepsOf(wr[w].arg)[wr[w].n + 1],
                                          tmp_dir)
               /\ UNCHANGED rawfs
    /\ wr' = [wr EXCEPT ![w].pc = "cleanup", ![w].res = "CorruptedCache"]
    /\ rd' = NoRead
    /\ UNCHANGED <<log, kc, task, reg, ld, http, zip, batch>>

\* the finally clause of save: shutil.rmtree(tmp_dir) when it still exists
RaceCleanup(w) ==
    /\ wr[w].pc = "cleanup"
    /\ IF wr[w].op = "raw"
       THEN /\ rawfs' = Rmtree(rawfs, TmpDirName(FrameFinalDir(wr[w]), w))
            /\ UNCHANGED prefs
       ELSE /\ prefs' = Rmtree(prefs, TmpDirName(FrameFinalDir(wr[w]), w))
            /\ UNCHANGED rawfs
    /\ wr' = [wr EXCEPT ![w].pc = "done"]
    /\ rd' = NoRead
    /\ UNCHANGED <<log, kc, task, reg, ld, http, zip, batch>>

\* the process is killed: no except or finally clause runs, every caller
\* stops where it stands and the directory tree stays as it is
Crash ==
    /\ \E w \in Writers : wr[w].pc \in {"run", "cleanup"}
    /\ wr' = [w \in Writers |->
                IF wr[w].pc = "done" THEN wr[w]
                ELSE [wr[w] EXCEPT !.pc = "killed", !.res = "killed"]]
    /\ rd' = NoRead
    /\ UNCHANGED <<rawfs, prefs, log, kc, task, reg, ld, http, zip, batch>>

NextRace ==
    \/ \E w \in Writers, in \in RaceRawInputs : RaceRawCall(w, in[1], in[2])
    \/ \E w \in Writers : RaceRawStep(w)
    \/ \E w \in Writers : RaceRawRename(w)
    \/ \E w \in Writers, in \in RacePreInputs : RacePreCall(w, in[1], in[2], in[3])
    \/ \E w \in Writers : RacePreStep(w)
    \/ \E w \in Writers : RacePreRename(w)
    \/ \E w \in Writers : RaceCleanup(w)
    \/ Crash
    \/ \E key \in RaceReadKeys : RawHas(key)
    \/ \E key \in RaceReadKeys : RawLoad(key)
    \/ \E c \in RaceFilters : RawIterKeys(c)
    \/ \E key \in RaceReadKeys : PreHas(key)
    \/ \E key \in RaceReadKeys : PreLoadManifest(key)
    \/ \E c \in RaceFilters : PreIterKeys(c)

SpecRace == Init /\ [][NextRace]_vars

\* the same callers on a disk whose writes can fail
NextFault ==
    \/ NextRace
    \/ \E w \in Writers : RaceWriteFails(w)

SpecFault == Init /\ [][NextFault]_vars

----------------------------------------------------------------------------
(* Properties of concurrent and interrupted saves under SpecRace *)

\* the name of a temporary directory of save
IsTmpDir(d) == \E i \in 1..Len(d) : d[i] = "tmp"

\* a raw run directory with payload.bin and a meta.json whose checksum is
\* the SHA-256 of the payload
RawComplete(c) ==
    /\ ~IsNone(c.payload)
    /\ ~IsNone(c.meta)
    /\ IsJObj(Val(c.meta))
    /\ Val(c.meta).v.checksum.v.hex.v = _sha256_hex(Val(c.payload))

\* a preprocessed run directory with meta.json, manifest.json and a file
\* for every name the manifest lists
PreComplete(c) ==
    /\ ~IsNone(c.meta) /\ IsJObj(Val(c.meta))
    /\ ~IsNone(c.manifest) /\ IsJObj(Val(c.manifest))
    /\ c.artifacts
    /\ LET files == Val(c.manifest).v.manifest.v.files.v
       IN \A i \in 1..Len(files) : PathParts(files[i].v) \in DOMAIN c.files

\* C1: at every point of a save, and so wherever the process is killed,
\* every final run directory that exists is complete: raw with payload.bin
\* matching the checksum of meta.json, preprocessed with meta.json,
\* manifest.json and every listed artifact.
C1_NoPartialFinalDir ==
    /\ \A d \in DOMAIN rawfs : ~IsTmpDir(d) => RawComplete(rawfs[d])
    /\ \A d \in DOMAIN prefs : ~IsTmpDir(d) => PreComplete(prefs[d])

\* the process was killed while one save had written part of its entry and
\* after another had committed: the partial entry is in a temporary directory
C1_Witness ==
    /\ \E w \in Writers : wr[w].res = "killed" /\ wr[w].pc = "killed" /\ wr[w].n > 0
    /\ \E w \in Writers : wr[w].res = "ok"
    /\ \/ /\ \E d \in DOMAIN rawfs : IsTmpDir(d) /\ ~RawComplete(rawfs[d])
          /\ \E d \in DOMAIN rawfs : ~IsTmpDir(d)
       \/ /\ \E d \in DOMAIN prefs : IsTmpDir(d) /\ ~PreComplete(prefs[d])
          /\ \E d \in DOMAIN prefs : ~IsTmpDir(d)

\* both callers ran raw.save with the same key and the same record and both
\* calls have ended
SameSaveTwice ==
    /\ \A w \in Writers : wr[w].op = "raw" /\ wr[w].pc = "done"
    /\ wr[1].key = wr[2].key
    /\ wr[1].arg = wr[2].arg

\* C2: of two concurrent raw.save(K, R) exactly one returns, the other
\* raises ConcurrentWrite and nothing else, and the final directory holds
\* the payload and meta of the one that returned.
C2_OneWinsOtherConcurrentWrite ==
    SameSaveTwice =>
        /\ { wr[1].res, wr[2].res } = { "ok", "ConcurrentWrite" }
        /\ rawfs[RawFinalDir(wr[1].key, wr[1].arg)] = RawEntry(wr[1].key, wr[1].arg)

\* the run directory that a reported key names
ReportedDir(key) ==
    _run_dir_from_parts(key.config_name, key.content_hash, Val(key.fetched_at_iso))

\* the directory tree that rd was read from
ReadFs == IF rd.cache = "raw" THEN rawfs ELSE prefs

\* C3: a reader reports a key as present (has returns true, load returns,
\* iter_keys yields it) only when its final run directory exists, that is
\* after the rename of the temporary directory.
C3_NoReportBeforeRename ==
    /\ (rd.op = "has" /\ rd.out) =>
          \E d \in DOMAIN ReadFs : ~IsTmpDir(d) /\ EndsWith(d, RunDirSuffix(rd.key))
    /\ (rd.op \in {"load", "load_manifest"} /\ rd.out.kind = "ok") =>
          \E d \in DOMAIN ReadFs : ~IsTmpDir(d) /\ EndsWith(d, RunDirSuffix(rd.key))
    /\ rd.op = "iter_keys" =>
          \A i \in 1..Len(rd.out) : ReportedDir(rd.out[i]) \in DOMAIN ReadFs

----------------------------------------------------------------------------
(* Properties of failing saves under SpecFault *)

\* the final run directories of a base directory, with their content
Committed(fs) == [d \in { p \in DOMAIN fs : ~IsTmpDir(p) } |-> fs[d]]

\* the save of caller w has raised after it made its temporary directory
SaveRaised(w) ==
    /\ wr[w].pc = "done"
    /\ wr[w].n > 0
    /\ wr[w].res \in {"ConcurrentWrite", "CorruptedCache"}

\* a step of a save other than the rename that commits it
StepOfUncommittedSave(w) == wr'[w] # wr[w] /\ wr'[w].res # "ok"

----------------------------------------------------------------------------
(* Derivation of the cache key: cache/hashlib.py (SpecKey) *)

\* s.encode("utf-8") of an ASCII string: one byte per character
encode(s) == [i \in 1..Len(s) |-> <<"byte", CharOrd(s[i])>>]

\* a JSON string literal; the characters used need no escape
JsonQuote(s) == <<"\"">> \o s \o <<"\"">>

RECURSIVE JsonItems(_, _)
JsonItems(m, keys) ==
    IF keys = <<>> THEN <<>>
    ELSE JsonQuote(Head(keys)) \o <<":">> \o JsonQuote(m[Head(keys)])
         \o (IF Len(keys) > 1 THEN <<",">> ELSE <<>>)
         \o JsonItems(m, Tail(keys))

\* json.dumps(m, sort_keys=True, separators=(",", ":")) of a str -> str map
json_dumps(m) == <<"{">> \o JsonItems(m, SortedSeq(DOMAIN m)) \o <<"}">>

\* hashlib.sha256(data).digest(): a block of 32 bytes, taken as one opaque
\* element that tells the data it was computed from
sha256_digest(data) == <<"digest", data>>

\* h.hexdigest() of the bytes fed to h
hexdigest(fed) == <<"sha256", fed>>

\* a variant that also feeds the fetch time
HashFeed_with_fetched_at(config_name, record, extra_identity) ==
    encode(config_name) \o <<sha256_digest(record.payload)>>
    \o encode(record.meta.fetched_at_iso)

\* a variant that leaves the config name out
HashFeed_without_config(config_name, record, extra_identity) ==
    <<sha256_digest(record.payload)>>
    \o (IF DOMAIN record.meta.meta # {} THEN encode(json_dumps(record.meta.meta))
        ELSE <<>>)
    \o (IF ~IsNone(extra_identity) /\ DOMAIN Val(extra_identity) # {}
        THEN encode(json_dumps(Val(extra_identity))) ELSE <<>>)

\* the bytes make_cache_key feeds to the outer SHA-256, in the order of its
\* h.update calls
HashFeed(config_name, record, extra_identity) ==
    encode(config_name)
    \o <<sha256_digest(record.payload)>>
    \o (IF DOMAIN record.meta.meta # {} THEN encode(json_dumps(record.meta.meta))
        ELSE <<>>)
    \o (IF ~IsNone(extra_identity) /\ DOMAIN Val(extra_identity) # {}
        THEN encode(json_dumps(Val(extra_identity))) ELSE <<>>)

make_cache_key(config_name, record, extra_identity) ==
    [config_name |-> config_name,
     content_hash |-> hexdigest(HashFeed(config_name, record, extra_identity)),
     fetched_at_iso |-> Some(record.meta.fetched_at_iso)]

KeyMetaMaps ==
    { <<>>, (<<"d">> :> <<"x">>), (<<"d">> :> <<"x">>) @@ (<<"a">> :> <<"b">>) }

KeyRecords ==
    { [RawCacheRecord(payload, fetched_at_iso, meta) EXCEPT !.meta.source_name = source_name] :
        payload \in Payloads, fetched_at_iso \in {<<"1", ":", "0">>, <<"2">>},
        meta \in KeyMetaMaps, source_name \in {<<"s">>, <<"x">>} }

ExtraIdentities == { None, Some(<<>>), Some((<<"d">> :> <<"x">>)) }

KeyCalls ==
    [config_name : ConfigNames, record : KeyRecords, extra_identity : ExtraIdentities]

\* two calls of make_cache_key are to be made; neither has returned
InitKey ==
    /\ CacheInit
    /\ kc \in [call : [1..2 -> KeyCalls], key : {[i \in 1..2 |-> None]}]
    /\ task = <<>>
    /\ reg = <<>>
    /\ ld = <<>>
    /\ http = <<>>
    /\ zip = <<>>
    /\ batch = <<>>

MakeCacheKey(i) ==
    /\ IsNone(kc.key[i])
    /\ kc' = [kc EXCEPT !.key[i] =
                Some(make_cache_key(kc.call[i].config_name, kc.call[i].record,
                                    kc.call[i].extra_identity))]
    /\ UNCHANGED <<cacheVars, task, reg, ld, http, zip, batch>>

NextKey == \E i \in 1..2 : MakeCacheKey(i)

SpecKey == InitKey /\ [][NextKey]_vars

----------------------------------------------------------------------------
(* Properties of make_cache_key under SpecKey *)

BothKeysMade == ~IsNone(kc.key[1]) /\ ~IsNone(kc.key[2])

CallFeed(i) ==
    HashFeed(kc.call[i].config_name, kc.call[i].record, kc.call[i].extra_identity)

SameIdentityInputs ==
    /\ kc.call[1].config_name = kc.call[2].config_name
    /\ kc.call[1].record.payload = kc.call[2].record.payload
    /\ kc.call[1].record.meta.meta = kc.call[2].record.meta.meta

SameExtraIdentity == kc.call[1].extra_identity = kc.call[2].extra_identity

\* C8: two calls with the same config_name, payload, meta.meta and
\* extra_identity return the same content_hash, whatever fetched_at_iso and
\* the other RawCacheMeta fields are.
C8_HashIgnoresFetchedAt ==
    (BothKeysMade /\ SameIdentityInputs /\ SameExtraIdentity) =>
        Val(kc.key[1]).content_hash = Val(kc.key[2]).content_hash

\* two records that differ in fetched_at_iso and in source_name, with a
\* meta map, got the same content_hash and keys with different timestamps
C8_Witness ==
    /\ BothKeysMade /\ SameIdentityInputs /\ SameExtraIdentity
    /\ kc.call[1].record.meta.fetched_at_iso # kc.call[2].record.meta.fetched_at_iso
    /\ kc.call[1].record.meta.source_name # kc.call[2].record.meta.source_name
    /\ DOMAIN kc.call[1].record.meta.meta # {}
    /\ Val(kc.key[1]).content_hash = Val(kc.key[2]).content_hash
    /\ Val(kc.key[1]).fetched_at_iso # Val(kc.key[2]).fetched_at_iso

\* C9 (as claimed): two calls that differ in config_name, payload or
\* meta.meta feed different bytes to the outer SHA-256 and get different
\* content hashes.
C9_InputsChangeHash_AsClaimed ==
    (BothKeysMade /\ ~SameIdentityInputs) =>
        /\ CallFeed(1) # CallFeed(2)
        /\ Val(kc.key[1]).content_hash # Val(kc.key[2]).content_hash

\* C9 (amended): two calls with the same extra_identity that differ in
\* config_name, payload or meta.meta feed different bytes to the outer
\* SHA-256 and get different content hashes.
C9_InputsChangeHash ==
    (BothKeysMade /\ ~SameIdentityInputs /\ SameExtraIdentity) =>
        /\ CallFeed(1) # CallFeed(2)
        /\ Val(kc.key[1]).content_hash # Val(kc.key[2]).content_hash

\* two calls that differ only in meta.meta, one of them with the empty map,
\* and both with an extra_identity, got different content hashes
C9_Witness ==
    /\ BothKeysMade /\ SameExtraIdentity
    /\ kc.call[1].config_name = kc.call[2].config_name
    /\ kc.call[1].record.payload = kc.call[2].record.payload
    /\ DOMAIN kc.call[1].record.meta.meta = {}
    /\ DOMAIN kc.call[2].record.meta.meta # {}
    /\ ~IsNone(kc.call[1].extra_identity)
    /\ DOMAIN Val(kc.call[1].extra_identity) # {}
    /\ Val(kc.key[1]).content_hash # Val(kc.key[2]).content_hash

-----------------------------------------------------------------------------
(* The job runner: cli/tasks/run.py, with the transform driver of          *)
(* transform/transformer.py (SpecJob).  One RunJobTask is driven by one     *)
(* caller; prepare(), run() and close() are called one after the other in   *)
(* any order.  run() is split at its loop heads, so that the state RUNNING  *)
(* is a state of the model.  The source, the three stages and the wall      *)
(* clock are the environment: the job says which records the source yields, *)
(* which artifacts the backend emits for each of them, what the clock reads *)
(* when each of them is transformed, and where, if anywhere, a call raises. *)

MaxRuns == 2         \* run() calls made on the task in one behaviour

\* an exception: its class name, whether the class derives from Exception,
\* and str(e)
Exc(type, base, msg) == [type |-> type, base |-> base, msg |-> msg]
NoExc == Exc("none", "none", "")

\* the errors of the cache modules are Exception subclasses
CacheExc(type) == Exc(type, "Exception", "cache")

NoFault == [site |-> "none", at |-> 0, exc |-> NoExc]
Fault(site, at, exc) == [site |-> site, at |-> at, exc |-> exc]

StageError == Exc("StageError", "Exception", "boom")
KeyboardInterrupt == Exc("KeyboardInterrupt", "BaseException", "")
\* what _ensure_mapping_json_value raises for a config value that is no JSON
ConfigTypeError == Exc("TypeError", "Exception", "value must be JsonValue")

\* self.loaded.config.profile
Profile == <<"a">>

\* what backend.emit returns for one record: a mapping whose keys come in
\* `order`
Emit(order, files) == [order |-> order, files |-> files]
EmitX == Emit(<<<<"x">>>>, (<<"x">> :> <<1>>))
EmitYX == Emit(<<<<"y">>, <<"x">>>>, (<<"y">> :> <<2>>) @@ (<<"x">> :> <<1>>))
EmitNone == Emit(<<>>, <<>>)

Job(records, emit, clock, fault, prepare_exc) ==
    [records |-> records, emit |-> emit, clock |-> clock, fault |-> fault,
     prepare_exc |-> prepare_exc]

RecA == RawCacheRecord(<<>>, <<"2">>, <<>>)
RecB == RawCacheRecord(<<7>>, <<"2">>, (<<"d">> :> <<"x">>))
RecC == RawCacheRecord(<<7>>, <<"1", ":", "0">>, <<>>)
RecD == RawCacheRecord(<<>>, <<"1", "0">>, <<>>)

\* the sites of run() and Transformer.run() where a call into the
\* environment can raise
FaultSites ==
    {"lookup", "construct", "validate", "fetch", "make_cache_key",
     "frontend_config", "frontend", "optimizer_config", "optimizer",
     "backend_config", "backend"}

\* the jobs tried: two records fetched and transformed at one instant, at
\* different instants, one record transformed later than it was fetched, the
\* same record twice, an empty source, and each site raising on the first or
\* the second record
Jobs ==
    { Job(<<RecA, RecB>>, <<EmitYX, EmitX>>, <<<<"2">>, <<"2">>>>, NoFault, None),
      Job(<<RecB, RecA>>, <<EmitX, EmitNone>>, <<<<"2">>, <<"2">>>>, NoFault, None),
      Job(<<RecC, RecA>>, <<EmitX, EmitYX>>, <<<<"1", ":", "0">>, <<"2">>>>, NoFault, None),
      Job(<<RecA, RecB>>, <<EmitX, EmitX>>, <<<<"2">>, <<"1", ":", "0">>>>, NoFault, None),
      Job(<<RecC>>, <<EmitX>>, <<<<"2">>>>, NoFault, None),
      Job(<<RecC, RecD>>, <<EmitX, EmitX>>, <<<<"1", ":", "0">>, <<"1", "0">>>>, NoFault, None),
      Job(<<RecA, RecA>>, <<EmitX, EmitX>>, <<<<"2">>, <<"2">>>>, NoFault, None),
      Job(<<>>, <<>>, <<>>, NoFault, None),
      Job(<<RecA>>, <<EmitX>>, <<<<"2">>>>, NoFault, Some(Exc("KeyError", "Exception", "raw cache"))) }
    \cup { Job(<<RecA, RecB>>, <<EmitYX, EmitX>>, <<<<"2">>, <<"2">>>>,
               Fault(site, at, StageError), None) :
             site \in FaultSites \ {"frontend_config", "optimizer_config", "backend_config"},
             at \in 1..2 }
    \cup { Job(<<RecA, RecB>>, <<EmitYX, EmitX>>, <<<<"2">>, <<"2">>>>,
               Fault(site, 2, ConfigTypeError), None) :
             site \in {"frontend_config", "optimizer_config", "backend_config"} }
    \cup { Job(<<RecA, RecB>>, <<EmitYX, EmitX>>, <<<<"2">>, <<"2">>>>,
               Fault(site, 2, KeyboardInterrupt), None) :
             site \in {"fetch", "backend"} }

\* what a call returns: the exception it raised, if any, and the tree after
RawSaveCall(fs, key, record) ==
    IF RawSaveArgError(key, record)
    THEN [exc |-> CacheExc("ValueError"), fs |-> fs]
    ELSE IF final_dir_exists(fs, RawFinalDir(key, record))
    THEN [exc |-> CacheExc("ConcurrentWrite"), fs |-> fs]
    ELSE [exc |-> NoExc,
          fs |-> RawRunFs(fs, Len(RawSteps), key, record,
                          TmpDirName(RawFinalDir(key, record), 1))]

PreSaveCall(fs, key, artifacts, meta) ==
    IF PreSaveArgError(key, meta)
    THEN [exc |-> CacheExc("ValueError"), fs |-> fs]
    ELSE IF final_dir_exists(fs, PreFinalDir(key, meta))
    THEN [exc |-> CacheExc("ConcurrentWrite"), fs |-> fs]
    ELSE IF PreNamesInvalid(artifacts)
    THEN [exc |-> CacheExc("CorruptedCache"), fs |-> fs]
    ELSE
      LET tmp_dir == TmpDirName(PreFinalDir(key, meta), 1)
          steps == PreStepsOf(artifacts)
          n == PreFirstError(fs, key, artifacts, meta, tmp_dir)
      IN IF n = 0
         THEN [exc |-> NoExc,
               fs |-> PreRunFs(fs, Len(steps), key, artifacts, meta, tmp_dir)]
         ELSE LET before == PreRunFs(fs, n - 1, key, artifacts, meta, tmp_dir)
              IN [exc |-> CacheExc(SaveErrorOf(PreStepError(before, steps[n], tmp_dir))),
                  fs |-> Rmtree(before, tmp_dir)]

\* an event of run(): what was called, and for which record
Ev(e, i) == [e |-> e, i |-> i]

EvSeq(names, i) == [k \in 1..Len(names) |-> Ev(names[k], i)]

\* a variant in which no stage raises
stage_never_raises(job, site, i) == FALSE

\* the call at `site` raises while record i is handled
Raises(job, site, i) == job.fault.site = site /\ job.fault.at = i

\* the `extra` of the PreprocessedCacheMeta the driver writes
TransformExtra(key, raw, emit) ==
    JObj([transform |->
            JObj([frontend |-> JStr(<<"f", "@", "1">>),
                  optimizer |-> JStr(<<"o", "@", "1">>),
                  backend |-> JStr(<<"b", "@", "1">>),
                  ir_version |-> JInt(1),
                  js_abi_version |-> JInt(1),
                  extra |-> JObj([config_name |-> JStr(key.config_name),
                                  content_hash |-> JStr(key.content_hash),
                                  raw_fetched_at_iso |->
                                      JStr(raw.record.meta.fetched_at_iso)])]),
          diagnostics |->
            JObj([artifacts_count |-> JInt(Cardinality(DOMAIN emit.files)),
                  artifact_names |->
                      JList([k \in 1..Cardinality(DOMAIN emit.files) |->
                               JStr(SortedSeq(DOMAIN emit.files)[k])])])])

\* Transformer.run(key) for the i-th key of the job: the exception raised,
\* the preprocessed tree afterwards, the calls made, and the keys of
\* result.artifacts in their order
TransformerRun(raw_fs, pre_fs, key, i, job) ==
    LET raw == load(raw_fs, key)
        Raise(exc, names) ==
            [exc |-> exc, prefs |-> pre_fs, ev |-> EvSeq(names, i), paths |-> <<>>]
    IN IF raw.kind # "ok" THEN Raise(CacheExc(raw.kind), <<"raw_load">>)
       ELSE IF Raises(job, "frontend_config", i)
       THEN Raise(job.fault.exc, <<"raw_load">>)
       ELSE IF Raises(job, "frontend", i)
       THEN Raise(job.fault.exc, <<"raw_load", "frontend">>)
       ELSE IF Raises(job, "optimizer_config", i)
       THEN Raise(job.fault.exc, <<"raw_load", "frontend">>)
       ELSE IF Raises(job, "optimizer", i)
       THEN Raise(job.fault.exc, <<"raw_load", "frontend", "optimizer">>)
       ELSE IF Raises(job, "backend_config", i)
       THEN Raise(job.fault.exc, <<"raw_load", "frontend", "optimizer">>)
       ELSE IF Raises(job, "backend", i)
       THEN Raise(job.fault.exc, <<"raw_load", "frontend", "optimizer", "backend">>)
       ELSE
         LET emit == job.emit[i]
             built_at_iso == job.clock[i]
             write_key == IF IsNone(key.fetched_at_iso)
                          THEN Key(key.config_name, key.content_hash, Some(built_at_iso))
                          ELSE key
             meta_pp == PreprocessedCacheMeta(built_at_iso,
                                              TransformExtra(key, raw, emit))
             saved == PreSaveCall(pre_fs, write_key, emit.files, meta_pp)
             names == <<"raw_load", "frontend", "optimizer", "backend", "pre_save">>
         IN IF saved.exc # NoExc
            THEN [exc |-> saved.exc, prefs |-> saved.fs, ev |-> EvSeq(names, i),
                  paths |-> <<>>]
            ELSE [exc |-> NoExc, prefs |-> saved.fs,
                  ev |-> EvSeq(names, i) \o <<Ev("driver_done", i)>>,
                  paths |-> emit.order]

\* TaskError(type=type(e).__name__, message=str(e), traceback=format_exc())
TaskError(exc) ==
    [type |-> exc.type, message |-> exc.msg,
     traceback |-> <<"Traceback", exc.type, exc.msg>>]

\* a task as its constructor leaves it, for the job it was given
NewTask(job) ==
    [job |-> job,
     _state |-> "created", _artifacts |-> None, _diagnostics |-> None,
     _error |-> None, _transformer |-> FALSE,
     pc |-> "idle", keys |-> <<>>, i |-> 0, ev |-> <<>>,
     raised |-> NoExc, last |-> "new", prev |-> "new", pre_before |-> <<>>,
     runs |-> 0]

\* a call returned or raised: the caller has the control back; `last` is the
\* call made most recently and `prev` the one before it
Return(t, call, exc) ==
    [t EXCEPT !.pc = "idle", !.last = call, !.raised = exc,
              !.prev = IF t.pc = "idle" THEN t.last ELSE @]

\* a variant of the handler of run() that records nothing
except_records_nothing(t, exc) == Return(t, "run", exc)

\* `except Exception` of run(): an exception of that family marks the task
\* failed and is raised again; any other one passes through
RunExcept(t, exc) ==
    IF exc.base = "Exception"
    THEN Return([t EXCEPT !._state = "failed", !._error = Some(TaskError(exc))],
                "run", exc)
    ELSE Return(t, "run", exc)

\* prepare(): the state is set first; a registry lookup or a constructor
\* that raises leaves the task without its transformer
Prepare ==
    /\ task.pc = "idle"
    /\ task' =
         LET t == [task EXCEPT !._state = "prepared", !._artifacts = Some(<<>>),
                               !._diagnostics = Some(<<>>)]
         IN IF ~IsNone(task.job.prepare_exc)
            THEN Return(t, "prepare", Val(task.job.prepare_exc))
            ELSE Return([t EXCEPT !._transformer = TRUE,
                                  !._diagnostics =
                                      Some([job |-> "job", transformer |-> "fob"])],
                        "prepare", NoExc)
    /\ UNCHANGED <<rawfs, prefs, wr, rd, log, kc, reg, ld, http, zip, batch>>

\* raise RuntimeError("task.run() called before prepare()")
NotPrepared == Exc("RuntimeError", "Exception", "before prepare")

\* a variant of run() without the test of the state
run_in_any_state ==
    /\ task.pc = "idle"
    /\ task.runs < MaxRuns
    /\ task' = [task EXCEPT !._state = "running", !.pc = "source", !.runs = @ + 1,
                            !.ev = <<>>, !.last = "run", !.prev = task.last,
                            !.raised = NoExc]
    /\ UNCHANGED <<rawfs, prefs, wr, rd, log, kc, reg, ld, http, zip, batch>>

\* run() up to the try statement
RunCall ==
    /\ task.pc = "idle"
    /\ task.runs < MaxRuns
    /\ task' =
         IF task._state # "prepared"
         THEN [Return(task, "run", NotPrepared)
                 EXCEPT !.runs = @ + 1, !.ev = <<>>]
         ELSE [task EXCEPT !._state = "running", !.pc = "source", !.runs = @ + 1,
                           !.ev = <<>>, !.last = "run", !.prev = task.last,
                           !.raised = NoExc]
    /\ UNCHANGED <<rawfs, prefs, wr, rd, log, kc, reg, ld, http, zip, batch>>

\* a variant in which no lookup, constructor or validate() ever raises
source_never_raises(job) == FALSE

\* run(): SOURCES.require(name), source_cls(**config) or source.validate()
\* raises
SourceRaises(job) ==
    \E site \in {"lookup", "construct", "validate"} : job.fault.site = site

\* run(): the source is looked up, made and validated; the raw cache is
\* taken from the transformer
RunSource ==
    /\ task.pc = "source"
    /\ task' =
         IF SourceRaises(task.job)
         THEN RunExcept(task, task.job.fault.exc)
         ELSE IF ~task._transformer
         THEN RunExcept(task, Exc("AttributeError", "Exception", "raw_cache"))
         ELSE [task EXCEPT !.pc = "fetch", !.keys = <<>>]
    /\ UNCHANGED <<rawfs, prefs, wr, rd, log, kc, reg, ld, http, zip, batch>>

\* run(): one turn of `for record in source.fetch()`
RunFetch ==
    /\ task.pc = "fetch"
    /\ LET i == Len(task.keys) + 1
           pulled == [task EXCEPT !.ev = @ \o <<Ev("pull", i)>>]
       IN IF Raises(task.job, "fetch", i)
          THEN /\ task' = RunExcept(pulled, task.job.fault.exc)
               /\ UNCHANGED rawfs
          ELSE IF i > Len(task.job.records)
          THEN \* the iterator is exhausted
               /\ task' = [task EXCEPT !.pc = "transform", !.i = 1,
                                       !._diagnostics =
                                           Some(("raw_items" :> Len(task.keys)) @@ Val(@))]
               /\ UNCHANGED rawfs
          ELSE IF Raises(task.job, "make_cache_key", i)
          THEN /\ task' = RunExcept(pulled, task.job.fault.exc)
               /\ UNCHANGED rawfs
          ELSE
            LET record == task.job.records[i]
                key == make_cache_key(Profile, record, None)
                saved == RawSaveCall(rawfs, key, record)
                called == [pulled EXCEPT !.ev = @ \o <<Ev("key", i), Ev("raw_save", i)>>]
            IN IF saved.exc # NoExc
               THEN /\ task' = RunExcept(called, saved.exc)
                    /\ UNCHANGED rawfs
               ELSE /\ task' = [called EXCEPT !.keys = Append(@, key)]
                    /\ rawfs' = saved.fs
    /\ UNCHANGED <<prefs, wr, rd, log, kc, reg, ld, http, zip, batch>>

\* a variant that puts the new paths in front
prepend_paths(artifacts, paths) == paths \o artifacts

\* self._artifacts.append(...) for each key of result.artifacts
AppendPaths(artifacts, paths) == artifacts \o paths

\* run(): one turn of `for key in keys`, or the end of run()
RunTransform ==
    /\ task.pc = "transform"
    /\ IF task.i > Len(task.keys)
       THEN /\ task' = Return([task EXCEPT !._state = "finished"], "run", NoExc)
            /\ UNCHANGED prefs
       ELSE
         LET r == TransformerRun(rawfs, prefs, task.keys[task.i], task.i, task.job)
             called == [task EXCEPT !.ev = @ \o r.ev, !.pre_before = prefs]
         IN /\ prefs' = r.prefs
            /\ task' =
                 IF r.exc # NoExc
                 THEN RunExcept(called, r.exc)
                 ELSE [called EXCEPT !._artifacts = Some(AppendPaths(Val(@), r.paths)),
                                     !.i = @ + 1]
    /\ UNCHANGED <<rawfs, wr, rd, log, kc, reg, ld, http, zip, batch>>

\* a variant of close() that forgets the error
close_clears_error(t) == [t EXCEPT !._state = "closed", !._error = None]

\* the body of close()
CloseBody(t) == [t EXCEPT !._state = "closed"]

Close ==
    /\ task.pc = "idle"
    /\ task' = Return(CloseBody(task), "close", NoExc)
    /\ UNCHANGED <<rawfs, prefs, wr, rd, log, kc, reg, ld, http, zip, batch>>

InitJob ==
    /\ CacheInit
    /\ kc = <<>>
    /\ reg = <<>>
    /\ task \in { NewTask(job) : job \in Jobs }
    /\ ld = <<>>
    /\ http = <<>>
    /\ zip = <<>>
    /\ batch = <<>>

NextJob ==
    \/ Prepare
    \/ RunCall
    \/ RunSource
    \/ RunFetch
    \/ RunTransform
    \/ Close

SpecJob == InitJob /\ [][NextJob]_vars

-----------------------------------------------------------------------------
(* Properties of the job runner and the transform driver under SpecJob *)

InEv(e, i) == \E k \in 1..Len(task.ev) : task.ev[k] = Ev(e, i)

Stages == <<"frontend", "optimizer", "backend">>

StageIndex(site) == CHOOSE k \in 1..Len(Stages) : Stages[k] = site

\* the driver called a stage for a record on which that stage raises, within
\* the run() most recently called
StageRaised ==
    /\ task.last = "run"
    /\ \E k \in 1..Len(Stages) : task.job.fault.site = Stages[k]
    /\ InEv(task.job.fault.site, task.job.fault.at)

\* C12: when frontend.compile, optimizer.optimize or backend.emit raises
\* during Transformer.run(key), the caller gets that very exception, no
\* later stage and no preprocessed_cache.save is called for the key (the
\* failing stage is the last call made), and the preprocessed cache is what
\* it was before the transform started.
C12_StageFailureAborts ==
    StageRaised =>
        /\ task.raised = task.job.fault.exc
        /\ task.ev[Len(task.ev)] = Ev(task.job.fault.site, task.job.fault.at)
        /\ \A k \in 1..Len(Stages) :
              k > StageIndex(task.job.fault.site) => ~InEv(Stages[k], task.job.fault.at)
        /\ ~InEv("pre_save", task.job.fault.at)
        /\ prefs = task.pre_before

\* the optimizer raised on the second record, after the first record's
\* artifacts had been saved
C12_Witness ==
    /\ StageRaised
    /\ task.job.fault.site = "optimizer"
    /\ task.job.fault.at = 2
    /\ InEv("pre_save", 1)
    /\ DOMAIN prefs # {}
    /\ task.raised.type = "StageError"

\* the cache keys run() derives for the records of the job
JobKeys(job) ==
    [i \in 1..Len(job.records) |-> make_cache_key(Profile, job.records[i], None)]

\* the first run() of the task was admitted and has ended
FirstRunEnded ==
    /\ task.runs = 1
    /\ task.last = "run"
    /\ task.pc = "idle"
    /\ task._state \in {"running", "finished", "failed"}

\* prepare() succeeded, no call into the source or a stage raises, and the
\* records have pairwise distinct cache keys
CleanJob(job) ==
    /\ IsNone(job.prepare_exc)
    /\ job.fault = NoFault
    /\ \A i, j \in 1..Len(job.records) : i # j => JobKeys(job)[i] # JobKeys(job)[j]

\* C13: a prepared job whose source yields n records with pairwise distinct
\* cache keys and whose stages succeed ends run() in state finished with n
\* raw entries and n preprocessed entries, whatever the records'
\* fetched_at_iso and whatever the clock reads at each transform.
C13_CleanJobFinishes ==
    (FirstRunEnded /\ CleanJob(task.job)) =>
        /\ task._state = "finished"
        /\ Cardinality(DOMAIN rawfs) = Len(task.job.records)
        /\ Cardinality(DOMAIN prefs) = Len(task.job.records)

\* the position of the first event (e, i) of the current run(), or 0
EvPos(e, i) ==
    IF InEv(e, i)
    THEN CHOOSE k \in 1..Len(task.ev) :
            /\ task.ev[k] = Ev(e, i)
            /\ \A m \in 1..(k - 1) : task.ev[m] # Ev(e, i)
    ELSE 0

\* C14: within run(), when a record is pulled from source.fetch(), the key
\* derivation, raw_cache.save, driver.run and preprocessed save of every
\* record pulled before it have completed.
C14_RecordDoneBeforeNextPull ==
    \A j \in 2..Len(task.job.records) :
        InEv("pull", j) =>
            \A i \in 1..(j - 1) :
                /\ InEv("raw_save", i) /\ EvPos("raw_save", i) < EvPos("pull", j)
                /\ InEv("pre_save", i) /\ EvPos("pre_save", i) < EvPos("pull", j)
                /\ InEv("driver_done", i) /\ EvPos("driver_done", i) < EvPos("pull", j)

\* the number of transforms the current run() completed
DoneCount == Cardinality({ i \in 1..Len(task.job.records) : InEv("driver_done", i) })

\* the artifact paths of the first n records, record by record
RECURSIVE PathsUpTo(_, _)
PathsUpTo(job, n) ==
    IF n = 0 THEN <<>> ELSE PathsUpTo(job, n - 1) \o job.emit[n].order

\* C15: records are handled in the order the source yielded them: for
\* records i before j, raw_cache.save of i is called before that of j,
\* driver.run of i before that of j, and the artifact list holds the
\* artifacts of i before those of j.
C15_YieldOrderKept ==
    /\ \A i, j \in 1..Len(task.job.records) :
          i < j =>
            /\ InEv("raw_save", j) =>
                  InEv("raw_save", i) /\ EvPos("raw_save", i) < EvPos("raw_save", j)
            /\ InEv("raw_load", j) =>
                  InEv("raw_load", i) /\ EvPos("raw_load", i) < EvPos("raw_load", j)
    /\ (task.last = "run" /\ task.ev # <<>>) =>
          /\ ~IsNone(task._artifacts)
          /\ Val(task._artifacts) = PathsUpTo(task.job, DoneCount)

\* run() finished a job of two records whose backend emitted y and x for the
\* first and x for the second
C15_Witness ==
    /\ task._state = "finished"
    /\ task.last = "run"
    /\ InEv("driver_done", 1) /\ InEv("driver_done", 2)
    /\ EvPos("raw_save", 1) < EvPos("raw_save", 2)
    /\ Val(task._artifacts) = << <<"y">>, <<"x">>, <<"x">> >>

\* the state changes the lifecycle allows
LifecycleSteps ==
    { <<"created", "prepared">>, <<"prepared", "running">>,
      <<"running", "finished">>, <<"running", "failed">>,
      <<"finished", "closed">>, <<"failed", "closed">> }

\* C16: under any sequence of prepare(), run() and close() calls every
\* change of the task's state is created->prepared, prepared->running,
\* running->finished, running->failed, finished->closed or failed->closed.
C16_OnlyLifecycleSteps ==
    [][task'._state # task._state =>
          <<task._state, task'._state>> \in LifecycleSteps]_vars

\* C17: close() may be called any number of times; every call leaves the
\* state closed, raises nothing, and leaves the artifacts, the diagnostics
\* and the error of the task as they were.
C17_CloseIdempotent ==
    [][Close =>
          /\ task'._state = "closed"
          /\ task'.raised = NoExc
          /\ task'._artifacts = task._artifacts
          /\ task'._diagnostics = task._diagnostics
          /\ task'._error = task._error]_vars

\* close() was called twice in a row on a task that failed after it had
\* produced artifacts
C17_Witness ==
    /\ task.prev = "close" /\ task.last = "close"
    /\ task._state = "closed"
    /\ ~IsNone(task._error)
    /\ ~IsNone(task._artifacts) /\ Val(task._artifacts) # <<>>
    /\ ~IsNone(task._diagnostics) /\ "raw_items" \in DOMAIN Val(task._diagnostics)

\* run() was admitted (the task was prepared) and has raised `task.raised`
RunRaised ==
    /\ task.last = "run"
    /\ task.pc = "idle"
    /\ task.raised # NoExc
    /\ task.raised # NotPrepared

\* C18 (as claimed): when the source lookup, validate(), fetch(),
\* make_cache_key, raw_cache.save or driver.run raises inside run() of a
\* prepared task, the state is failed, task.error holds the type name, the
\* message and the traceback of the exception, and the caller gets the
\* exception.
C18_RunFailureRecorded_AsClaimed ==
    RunRaised =>
        /\ task._state = "failed"
        /\ task._error = Some(TaskError(task.raised))

\* C18 (amended): when one of those calls raises an exception whose class
\* derives from Exception, the state is failed and task.error holds its type
\* name, message and traceback; whatever was raised, the caller gets it and
\* the state is not finished.
C18_RunFailureRecorded ==
    RunRaised =>
        /\ task._state # "finished"
        /\ task.raised.base = "Exception" =>
              /\ task._state = "failed"
              /\ task._error = Some(TaskError(task.raised))

\* the backend raised on the second record: the task is failed and its
\* error names the StageError
C18_Witness ==
    /\ RunRaised
    /\ task.job.fault.site = "backend" /\ task.job.fault.at = 2
    /\ task.raised = StageError
    /\ task._state = "failed"
    /\ Val(task._error).type = "StageError"
    /\ Val(task._error).message = "boom"

\* C30: when the source name is not registered or source.validate()
\* raises, run() ends in state failed without a single turn of the loop
\* over source.fetch() (where the HTTP requests are made), and with both
\* caches as they were.
C30_ConfigErrorsBeforeIO ==
    ( /\ RunRaised
      /\ task.job.fault.site \in {"lookup", "validate"}
      /\ task.job.fault.exc.base = "Exception" ) =>
        /\ task._state = "failed"
        /\ task.raised = task.job.fault.exc
        /\ \A k \in 1..Len(task.ev) : task.ev[k].e \notin {"pull", "key", "raw_save"}
        /\ task.keys = <<>>
        /\ rawfs = <<>>
        /\ prefs = <<>>

\* validate() raised in a prepared task: failed, nothing pulled, nothing
\* written
C30_Witness ==
    /\ RunRaised
    /\ task.job.fault.site = "validate"
    /\ task._state = "failed"
    /\ Val(task._error).type = "StageError"
    /\ task.ev = <<>>
    /\ rawfs = <<>> /\ prefs = <<>>

\* run() is called on the idle task
RunIsCalled == task.pc = "idle" /\ task'.runs = task.runs + 1

\* C35: run() called in any state other than prepared raises RuntimeError
\* and leaves the state, the error, the artifacts and both caches as they
\* were; no source is instantiated and nothing is fetched.
C35_RunNeedsPrepared ==
    [][(RunIsCalled /\ task._state # "prepared") =>
          /\ task'.pc = "idle"
          /\ task'.raised = NotPrepared
          /\ task'.ev = <<>>
          /\ task'._state = task._state
          /\ task'._error = task._error
          /\ task'._artifacts = task._artifacts
          /\ rawfs' = rawfs
          /\ prefs' = prefs]_vars

\* run() was called again on a task whose first run had failed after it
\* stored a record
C35_Witness ==
    /\ task.last = "run" /\ task.prev = "run"
    /\ task.pc = "idle"
    /\ task.raised = NotPrepared
    /\ task._state = "failed"
    /\ ~IsNone(task._error)
    /\ rawfs # <<>>

\* C36: whenever the task is in state prepared, its transform driver and
\* both caches have been constructed: a prepare() that raises does not
\* leave the task in state prepared, so a following run() cannot start with
\* a missing driver.
C36_PreparedHasDriver ==
    /\ task._state = "prepared" => task._transformer
    /\ (task.last = "prepare" /\ task.pc = "idle" /\ task.raised # NoExc) =>
          task._state # "prepared"
    /\ task.pc = "source" => task._transformer

-----------------------------------------------------------------------------
(* The registry: utils/registry.py (SpecReg).  One Registry, with or       *)
(* without a base class, is called by one caller.  A name argument is a     *)
(* Python object: a str with its characters, or something that is no str.   *)
(* A registration target is a Python object too: a class (a subclass of the *)
(* base or not) or an instance.                                             *)

MaxCalls == 3        \* calls made on the registry in one behaviour

StrName(s) == [is_str |-> TRUE, s |-> s]
NonStrName == [is_str |-> FALSE, s |-> <<>>]

IsSpace(c) == c \in {" ", "\t"}

RECURSIVE lstrip(_)
lstrip(s) ==
    IF s = <<>> THEN s
    ELSE IF IsSpace(Head(s)) THEN lstrip(Tail(s))
    ELSE s

RECURSIVE rstrip(_)
rstrip(s) ==
    IF s = <<>> THEN s
    ELSE IF IsSpace(s[Len(s)]) THEN rstrip(SubSeq(s, 1, Len(s) - 1))
    ELSE s

\* str.strip()
strip(s) == rstrip(lstrip(s))

LowerChar(c) ==
    CASE c = "A" -> "a"
      [] c = "B" -> "b"
      [] OTHER -> c

\* str.lower()
lower(s) == [k \in 1..Len(s) |-> LowerChar(s[k])]

\* the result of a call: what it returned, or the exception it raised
Returns(val) == [kind |-> "return", val |-> val]
RaisesErr(err) == [kind |-> "raise", val |-> err]

\* a variant that takes the name as it is written
normalize_keeps_name(name) == Returns(name.s)

\* _normalize_name(name): the normalized name, or the exception
_normalize_name(name) ==
    IF ~name.is_str THEN RaisesErr("InvalidRegistrationError")
    ELSE IF strip(name.s) = <<>> THEN RaisesErr("InvalidRegistrationError")
    ELSE Returns(lower(strip(name.s)))

\* registration targets: C and D are subclasses of the base; Cr is the class
\* a reload of C's module makes (same module and qualname, another object);
\* E is a class outside the base; I is an instance
Target(id, is_class, is_sub, qualname) ==
    [id |-> id, is_class |-> is_class, is_sub |-> is_sub,
     module |-> "m", qualname |-> qualname]

Targets ==
    { Target("C", TRUE, TRUE, "C"), Target("Cr", TRUE, TRUE, "C"),
      Target("D", TRUE, TRUE, "D"), Target("E", TRUE, FALSE, "E"),
      Target("I", FALSE, FALSE, "I") }

RegNames ==
    { StrName(<<"a">>), StrName(<<" ", "A", "\t">>),
      StrName(<<"a", " ", "B">>), StrName(<<"b">>), StrName(<<" ">>),
      NonStrName }

RegistryItem(name, cls) ==
    [name |-> name, cls |-> cls.id, module |-> cls.module, qualname |-> cls.qualname]

\* _validate_registration(normalized, target_cls): the exception, or "none"
_validate_registration(base, target_cls) ==
    IF ~target_cls.is_class THEN "InvalidRegistrationError"
    ELSE IF ~IsNone(base) /\ ~target_cls.is_sub THEN "InvalidRegistrationError"
    ELSE "none"

\* a variant of the duplicate test that lets every registration through
override_always(items, normalized, override) == FALSE

\* `normalized in self._items and not override`
NeedsDuplicateCheck(items, normalized, override) ==
    normalized \in DOMAIN items /\ ~override

\* register(name, cls, override), in either form: the _items afterwards and
\* the result
register(base, items, name, cls, override) ==
    LET normalized == _normalize_name(name)
    IN IF normalized.kind = "raise" THEN [items |-> items, out |-> normalized]
       ELSE IF _validate_registration(base, cls) # "none"
       THEN [items |-> items, out |-> RaisesErr(_validate_registration(base, cls))]
       ELSE IF NeedsDuplicateCheck(items, normalized.val, override)
       THEN IF items[normalized.val].cls = cls.id
            THEN [items |-> items, out |-> Returns(cls.id)]
            ELSE [items |-> items, out |-> RaisesErr("DuplicateRegistrationError")]
       ELSE [items |-> (normalized.val :> RegistryItem(normalized.val, cls)) @@ items,
             out |-> Returns(cls.id)]

\* get(name): the class, or None
get(items, name) ==
    LET normalized == _normalize_name(name)
    IN IF normalized.kind = "raise" THEN normalized
       ELSE IF normalized.val \in DOMAIN items
       THEN Returns(items[normalized.val].cls)
       ELSE Returns("None")

\* require(name)
require(items, name) ==
    LET cls == get(items, name)
    IN IF cls = Returns("None") THEN RaisesErr("NotFoundError") ELSE cls

\* name in registry
contains(items, name) ==
    IF ~name.is_str THEN Returns("False")
    ELSE LET normalized == _normalize_name(name)
         IN IF normalized.kind = "raise" THEN normalized
            ELSE IF normalized.val \in DOMAIN items THEN Returns("True")
            ELSE Returns("False")

\* the record of a call: its arguments and its result
RegCall(op, name, cls, override, out) ==
    [op |-> op, name |-> name, cls |-> cls, override |-> override, out |-> out]

NoTarget == Target("None", FALSE, FALSE, "None")

Register(name, cls, override) ==
    /\ reg.calls < MaxCalls
    /\ LET r == register(reg._base, reg._items, name, cls, override)
       IN reg' = [reg EXCEPT !._items = r.items, !.calls = @ + 1,
                             !.prev_name = reg.last.name,
                             !.last = RegCall("register", name, cls, override, r.out)]
    /\ UNCHANGED <<rawfs, prefs, wr, rd, log, kc, task, ld, http, zip, batch>>

\* the registry after a call that reads it returned or raised
AfterRead(op, name, out) ==
    [reg EXCEPT !.calls = @ + 1, !.prev_name = reg.last.name,
                !.last = RegCall(op, name, NoTarget, FALSE, out)]

Get(name) ==
    /\ reg.calls < MaxCalls
    /\ reg' = AfterRead("get", name, get(reg._items, name))
    /\ UNCHANGED <<rawfs, prefs, wr, rd, log, kc, task, ld, http, zip, batch>>

Require(name) ==
    /\ reg.calls < MaxCalls
    /\ reg' = AfterRead("require", name, require(reg._items, name))
    /\ UNCHANGED <<rawfs, prefs, wr, rd, log, kc, task, ld, http, zip, batch>>

Contains(name) ==
    /\ reg.calls < MaxCalls
    /\ reg' = AfterRead("contains", name, contains(reg._items, name))
    /\ UNCHANGED <<rawfs, prefs, wr, rd, log, kc, task, ld, http, zip, batch>>

\* Registry(namespace, base): no items; `last` is the call made most recently
\* and `prev_name` the name given to the call before it
InitReg ==
    /\ CacheInit
    /\ kc = <<>>
    /\ task = <<>>
    /\ reg \in { [_base |-> base, _items |-> <<>>, calls |-> 0, prev_name |-> NonStrName,
                  last |-> RegCall("new", NonStrName, NoTarget, FALSE, Returns("None"))] :
                 base \in {None, Some("B")} }
    /\ ld = <<>>
    /\ http = <<>>
    /\ zip = <<>>
    /\ batch = <<>>

NextReg ==
    \/ \E name \in RegNames, cls \in Targets, override \in BOOLEAN :
          Register(name, cls, override)
    \/ \E name \in RegNames : Get(name)
    \/ \E name \in RegNames : Require(name)
    \/ \E name \in RegNames : Contains(name)

SpecReg == InitReg /\ [][NextReg]_vars

-----------------------------------------------------------------------------
(* Properties of the registry under SpecReg *)

\* the step is a call register(name, cls, override) with a name that the
\* registry maps to a class already
RegisterOnMapped ==
    /\ reg'.calls = reg.calls + 1
    /\ reg'.last.op = "register"
    /\ _normalize_name(reg'.last.name).kind = "return"
    /\ _normalize_name(reg'.last.name).val \in DOMAIN reg._items

\* what C19 says of such a step
RegisterOutcome ==
    LET n == _normalize_name(reg'.last.name).val
        old == reg._items[n].cls
        new == reg'.last.cls
    IN /\ new.id = old =>
             /\ reg'.last.out = Returns(new.id)
             /\ reg'._items = reg._items
       /\ (new.id # old /\ ~reg'.last.override) =>
             /\ reg'.last.out = RaisesErr("DuplicateRegistrationError")
             /\ reg'._items = reg._items
       /\ (new.id # old /\ reg'.last.override) =>
             /\ reg'.last.out = Returns(new.id)
             /\ reg'._items[n].cls = new.id
             /\ \A m \in DOMAIN reg._items \ {n} :
                   m \in DOMAIN reg'._items /\ reg'._items[m] = reg._items[m]

\* C19 (as claimed): registering class C under a name mapped to C succeeds
\* and leaves the registry unchanged; registering a different class D under
\* it raises DuplicateRegistrationError and leaves the mapping when override
\* is false, and succeeds and maps the name to D when override is true.
C19_RegisterRules_AsClaimed ==
    [][(RegisterOnMapped /\ reg'.last.cls.is_class) => RegisterOutcome]_vars

\* C19 (amended): the same, for a class the registry accepts (a subclass of
\* the base when the registry has one); a target it does not accept raises
\* InvalidRegistrationError, whatever override is, and leaves the registry
\* unchanged.
C19_RegisterRules ==
    [][RegisterOnMapped =>
          IF _validate_registration(reg._base, reg'.last.cls) = "none"
          THEN RegisterOutcome
          ELSE /\ reg'.last.out = RaisesErr("InvalidRegistrationError")
               /\ reg'._items = reg._items]_vars

\* register(" A\t", D) with override=false was refused as a duplicate: the
\* name "a" is mapped to C
C19_Witness ==
    /\ reg.last.op = "register"
    /\ reg.last.name = StrName(<<" ", "A", "\t">>)
    /\ reg.last.cls.id = "D" /\ ~reg.last.override
    /\ reg.last.out = RaisesErr("DuplicateRegistrationError")
    /\ <<"a">> \in DOMAIN reg._items
    /\ reg._items[<<"a">>].cls = "C"

\* the call before this step was a successful register(n1, C), and this step
\* is a call with a name n2 that equals n1 after strip() and lower()
CallAfterRegister ==
    /\ reg.last.op = "register"
    /\ reg.last.out.kind = "return"
    /\ reg'.calls = reg.calls + 1
    /\ reg.last.name.is_str /\ reg'.last.name.is_str
    /\ lower(strip(reg.last.name.s)) = lower(strip(reg'.last.name.s))

\* what C20 says of the call with n2, for the classes D in `others`
LookupOutcome(others) ==
    LET C == reg.last.cls.id
    IN /\ reg'.last.op = "get" => reg'.last.out = Returns(C)
       /\ reg'.last.op = "require" => reg'.last.out = Returns(C)
       /\ reg'.last.op = "contains" => reg'.last.out = Returns("True")
       /\ ( /\ reg'.last.op = "register"
            /\ reg'.last.cls \in others
            /\ reg'.last.cls.id # C
            /\ ~reg'.last.override ) =>
              /\ reg'.last.out = RaisesErr("DuplicateRegistrationError")
              /\ reg'._items = reg._items

\* C20 (as claimed): for names n1 and n2 that are equal after strip() and
\* lower(), after register(n1, C) the calls get(n2) and require(n2) return
\* C, `n2 in registry` is true, and register(n2, D) with a class D other
\* than C and override=false fails as a duplicate.
C20_NamesNormalized_AsClaimed ==
    [][CallAfterRegister =>
          LookupOutcome({ D \in Targets : D.is_class })]_vars

\* C20 (amended): the same, where D is a class the registry accepts (a
\* subclass of the base when the registry has one).
C20_NamesNormalized ==
    [][CallAfterRegister =>
          LookupOutcome({ D \in Targets :
                            _validate_registration(reg._base, D) = "none" })]_vars

\* register("a", C) was followed by require(" A\t"), which returned C
C20_Witness ==
    /\ reg.calls = 2
    /\ reg.prev_name = StrName(<<"a">>)
    /\ reg.last.op = "require"
    /\ reg.last.name = StrName(<<" ", "A", "\t">>)
    /\ reg.last.out = Returns("C")
    /\ DOMAIN reg._items = {<<"a">>}

-----------------------------------------------------------------------------
(* Two threads registering at once (SpecRegRace).  register() takes no     *)
(* lock; a thread can be preempted between the test                        *)
(* `normalized in self._items` and the store `self._items[normalized] =    *)
(* item`.  Each thread makes one call; reg holds the shared _items and the *)
(* frame of each thread.                                                   *)

RegThreads == {1, 2}

RaceTargets == { cls \in Targets : cls.id \in {"C", "D", "E"} }

RaceNames == { StrName(<<"a">>), StrName(<<" ", "A", "\t">>), StrName(<<"b">>) }

RegIdle == [pc |-> "idle", name |-> NonStrName, cls |-> NoTarget,
            override |-> FALSE, out |-> Returns("None")]

\* self._items[normalized] = item; return target_cls
StoreItem(items, f) ==
    [items |-> (_normalize_name(f.name).val :>
                   RegistryItem(_normalize_name(f.name).val, f.cls)) @@ items,
     out |-> Returns(f.cls.id)]

\* register(name, cls, override) up to the test of _items: the name is
\* normalized and the target validated, which touches no shared state
RaceRegisterCall(t, name, cls, override) ==
    /\ reg.th[t].pc = "idle"
    /\ LET f == [pc |-> "test", name |-> name, cls |-> cls,
                 override |-> override, out |-> Returns("None")]
           bad == IF _normalize_name(name).kind = "raise"
                  THEN "InvalidRegistrationError"
                  ELSE _validate_registration(reg._base, cls)
       IN reg' = [reg EXCEPT !.th[t] =
                     IF bad # "none"
                     THEN [f EXCEPT !.pc = "done", !.out = RaisesErr(bad)]
                     ELSE f]
    /\ UNCHANGED <<rawfs, prefs, wr, rd, log, kc, task, ld, http, zip, batch>>

\* `if normalized in self._items and not override`, with its two exits
RaceRegisterTest(t) ==
    /\ reg.th[t].pc = "test"
    /\ LET f == reg.th[t]
           n == _normalize_name(f.name).val
       IN reg' = [reg EXCEPT !.th[t] =
                     IF NeedsDuplicateCheck(reg._items, n, f.override)
                     THEN IF reg._items[n].cls = f.cls.id
                          THEN [f EXCEPT !.pc = "done", !.out = Returns(f.cls.id)]
                          ELSE [f EXCEPT !.pc = "done",
                                         !.out = RaisesErr("DuplicateRegistrationError")]
                     ELSE [f EXCEPT !.pc = "store"]]
    /\ UNCHANGED <<rawfs, prefs, wr, rd, log, kc, task, ld, http, zip, batch>>

RaceRegisterStore(t) ==
    /\ reg.th[t].pc = "store"
    /\ LET r == StoreItem(reg._items, reg.th[t])
       IN reg' = [reg EXCEPT !._items = r.items,
                             !.th[t] = [@ EXCEPT !.pc = "done", !.out = r.out],
                             !.order = Append(@, t)]
    /\ UNCHANGED <<rawfs, prefs, wr, rd, log, kc, task, ld, http, zip, batch>>

\* Registry(namespace, base) before any registration; `order` lists the
\* threads in the order of their stores
InitRegRace ==
    /\ CacheInit
    /\ kc = <<>>
    /\ task = <<>>
    /\ ld = <<>>
    /\ http = <<>>
    /\ zip = <<>>
    /\ batch = <<>>
    /\ reg \in { [_base |-> base, _items |-> <<>>, order |-> <<>>,
                  th |-> [t \in RegThreads |-> RegIdle]] :
                 base \in {None, Some("B")} }

NextRegRace ==
    \/ \E t \in RegThreads, name \in RaceNames, cls \in RaceTargets,
          override \in BOOLEAN : RaceRegisterCall(t, name, cls, override)
    \/ \E t \in RegThreads : RaceRegisterTest(t)
    \/ \E t \in RegThreads : RaceRegisterStore(t)

SpecRegRace == InitRegRace /\ [][NextRegRace]_vars

\* both threads have returned from register(name, A) and register(name, B)
\* with the same normalized name, different accepted classes and
\* override=false
RivalsDone ==
    /\ \A t \in RegThreads : reg.th[t].pc = "done"
    /\ \A t \in RegThreads : _normalize_name(reg.th[t].name).kind = "return"
    /\ _normalize_name(reg.th[1].name) = _normalize_name(reg.th[2].name)
    /\ reg.th[1].cls.id # reg.th[2].cls.id
    /\ \A t \in RegThreads :
          /\ _validate_registration(reg._base, reg.th[t].cls) = "none"
          /\ ~reg.th[t].override

\* C21: when two threads concurrently call register(name, A) and
\* register(name, B) with A # B, the same normalized name and
\* override=false, exactly one call succeeds, the other raises
\* DuplicateRegistrationError, and the name is mapped to the class of the
\* call that succeeded.
C21_OneRegistrationWins ==
    RivalsDone =>
        \E w \in RegThreads :
            /\ reg.th[w].out = Returns(reg.th[w].cls.id)
            /\ reg.th[3 - w].out = RaisesErr("DuplicateRegistrationError")
            /\ reg._items[_normalize_name(reg.th[w].name).val].cls = reg.th[w].cls.id

-----------------------------------------------------------------------------
(* The plugin loader: cli/runtime.py (SpecLoader).  Threads of one process  *)
(* call _ensure_modules_imported with lists of module names; the module     *)
(* globals _import_lock and _imported_plugins are shared.  A module either  *)
(* imports or raises on import; `count` counts the invocations of           *)
(* importlib.import_module per name.                                        *)

MaxLoads == 3        \* calls of _ensure_modules_imported in one behaviour

LoadThreads == {1, 2}

PluginModules == {"p", "q", "x"}

ModuleLists == { <<>>, <<"p">>, <<"p", "q">>, <<"q", "p">>, <<"p", "p">>, <<"x", "p">>,
                 <<"q", "x">> }

LoadIdle == [pc |-> "idle", modules |-> <<>>, i |-> 0, out |-> "none"]

\* a variant of the lock that never makes a thread wait
lock_always_free(lock) == TRUE

\* _import_lock can be acquired
LockFree(lock) == lock = 0

\* _ensure_modules_imported(modules) is called
LoadCall(t, modules) ==
    /\ ld.th[t].pc = "idle"
    /\ ld.calls < MaxLoads
    /\ ld' = [ld EXCEPT !.calls = @ + 1,
                        !.th[t] = [pc |-> "acquire", modules |-> modules, i |-> 0,
                                   out |-> "none"]]
    /\ UNCHANGED <<rawfs, prefs, wr, rd, log, kc, task, reg, http, zip, batch>>

\* with _import_lock:
LoadAcquire(t) ==
    /\ ld.th[t].pc = "acquire"
    /\ LockFree(ld.lock)
    /\ ld' = [ld EXCEPT !.lock = t, !.th[t].pc = "test", !.th[t].i = 1]
    /\ UNCHANGED <<rawfs, prefs, wr, rd, log, kc, task, reg, http, zip, batch>>

\* the loop head and `if module_name in _imported_plugins: continue`; at the
\* end of the list the with block is left and the call returns
LoadTest(t) ==
    /\ ld.th[t].pc = "test"
    /\ LET f == ld.th[t]
       IN IF f.i > Len(f.modules)
          THEN ld' = [ld EXCEPT !.lock = 0,
                                !.th[t] = [f EXCEPT !.pc = "idle", !.out = "ok"]]
          ELSE IF f.modules[f.i] \in ld.imported
          THEN ld' = [ld EXCEPT !.th[t].i = @ + 1]
          ELSE ld' = [ld EXCEPT !.th[t].pc = "import"]
    /\ UNCHANGED <<rawfs, prefs, wr, rd, log, kc, task, reg, http, zip, batch>>

\* importlib.import_module(module_name); an exception leaves the with block
LoadImport(t) ==
    /\ ld.th[t].pc = "import"
    /\ LET f == ld.th[t]
           m == f.modules[f.i]
       IN IF m \in ld.bad
          THEN ld' = [ld EXCEPT !.count[m] = @ + 1, !.lock = 0,
                                !.th[t] = [f EXCEPT !.pc = "idle", !.out = "ImportError"]]
          ELSE ld' = [ld EXCEPT !.count[m] = @ + 1, !.th[t].pc = "add"]
    /\ UNCHANGED <<rawfs, prefs, wr, rd, log, kc, task, reg, http, zip, batch>>

\* _imported_plugins.add(module_name)
LoadAdd(t) ==
    /\ ld.th[t].pc = "add"
    /\ LET f == ld.th[t]
       IN ld' = [ld EXCEPT !.imported = @ \cup {f.modules[f.i]},
                           !.th[t] = [f EXCEPT !.pc = "test", !.i = @ + 1]]
    /\ UNCHANGED <<rawfs, prefs, wr, rd, log, kc, task, reg, http, zip, batch>>

\* the module as imported: lock free, nothing imported
InitLoader ==
    /\ CacheInit
    /\ kc = <<>>
    /\ task = <<>>
    /\ reg = <<>>
    /\ http = <<>>
    /\ zip = <<>>
    /\ batch = <<>>
    /\ ld = [imported |-> {}, lock |-> 0, calls |-> 0, bad |-> {"x"},
             count |-> [m \in PluginModules |-> 0],
             th |-> [t \in LoadThreads |-> LoadIdle]]

NextLoader ==
    \/ \E t \in LoadThreads, modules \in ModuleLists : LoadCall(t, modules)
    \/ \E t \in LoadThreads : LoadAcquire(t)
    \/ \E t \in LoadThreads : LoadTest(t)
    \/ \E t \in LoadThreads : LoadImport(t)
    \/ \E t \in LoadThreads : LoadAdd(t)

SpecLoader == InitLoader /\ [][NextLoader]_vars

\* C22: over any sequential or concurrent calls of _ensure_modules_imported
\* with overlapping lists, import_module is invoked at most once for a
\* module whose import succeeds, and exactly once for every module of a
\* list whose call has returned.
C22_ImportedOnce ==
    /\ \A m \in PluginModules \ ld.bad : ld.count[m] <= 1
    /\ \A m \in ld.imported : ld.count[m] = 1
    /\ \A t \in LoadThreads :
          ld.th[t].out = "ok" =>
              \A k \in 1..Len(ld.th[t].modules) : ld.count[ld.th[t].modules[k]] = 1

\* two threads have returned from calls with the lists p,q and q,p, and a
\* third call was made: each module was imported once
C22_Witness ==
    /\ ld.calls = 3
    /\ ld.th[1].out = "ok" /\ ld.th[1].modules = <<"p", "q">>
    /\ ld.th[2].out = "ok" /\ ld.th[2].modules = <<"q", "p">>
    /\ ld.count["p"] = 1 /\ ld.count["q"] = 1
    /\ ld.imported = {"p", "q"}

-----------------------------------------------------------------------------
(* The HTTP sources (SpecHttp).  One fetch() of one source against a        *)
(* scripted server.  `server[e]` is the sequence of answers of URL e to     *)
(* the first, second, ... request, its last answer repeating for ever; an   *)
(* answer is an HTTP status or TransportError (no status: connection        *)
(* failure, timeout).  A 200 answer carries a well-formed body.  A step is  *)
(* one iteration of the source's retry loop: the request, the handling of   *)
(* its outcome and the backoff sleep, and what follows a return or raise.   *)
(* Delays are not modelled, sleeps are counted.                             *)

MaxRetries == 2      \* largest max_retries / retry_max configured

TransportError == 0 - 1

HttpAnswers == {200, 404, 429, 503, TransportError}

ServerScripts == UNION { [1..n -> HttpAnswers] : n \in 1..(MaxRetries + 1) }

MirrorScripts == { <<200>>, <<503>>, <<TransportError>> }

HttpKinds == {"data_gov_sg.realtime", "datamall_linkfile", "osm_overpass"}

\* the answer of URL e to its n-th request
AnswerAt(server, e, n) ==
    LET script == server[e]
    IN IF n <= Len(script) THEN script[n] ELSE script[Len(script)]

\* requests made so far to URL e
RequestsTo(reqs, e) == Cardinality({ i \in 1..Len(reqs) : reqs[i].ep = e })

HttpReq(e, attempt, answer, slept) ==
    [ep |-> e, attempt |-> attempt, answer |-> answer, slept |-> slept]

HttpError(type, status) == [type |-> type, status |-> status]

\* a variant in which diag["retries"] keeps its initial value
diag_never_updated(attempt) == <<"0">>

\* data_gov_sg: diag = {"retries": "0"}; if attempt > 0: diag["retries"] = str(attempt)
DiagRetries(attempt) == IF attempt > 0 THEN Decimal(attempt) ELSE <<"0">>

\* data_gov_sg: the statuses _http_request_with_retry retries
RetryableStatus(status) == status \in {408, 429} \/ (500 <= status /\ status < 600)

\* osm_overpass: default retry_http_statuses
OverpassRetryStatuses == {429, 502, 503, 504}

\* data_gov_sg.realtime: what fetch() does with the tuple that
\* _http_request_with_retry returned: it yields one record
RealtimeYield(h, req, status) ==
    [h EXCEPT !.pc = "done",
              !.reqs = Append(@, req),
              !.records = Append(@, [http_status |-> Decimal(status),
                                     retries |-> DiagRetries(h.attempt)])]

\* DataGovSgRealtimeSource.fetch: one iteration of the loop of
\* _http_request_with_retry; _http_request turns an HTTPError into a status
\* and lets every other exception through
DataGovRequest ==
    /\ http.kind = "data_gov_sg.realtime"
    /\ http.pc = "request"
    /\ LET answer == AnswerAt(http.server, 1, RequestsTo(http.reqs, 1) + 1)
           attempt == http.attempt
       IN http' =
            IF answer = TransportError
            THEN [http EXCEPT !.pc = "done",
                              !.reqs = Append(@, HttpReq(1, attempt, answer, FALSE)),
                              !.error = <<HttpError("URLError", answer)>>]
            ELSE IF 200 <= answer /\ answer < 300
            THEN RealtimeYield(http, HttpReq(1, attempt, answer, FALSE), answer)
            ELSE IF RetryableStatus(answer)
            THEN IF attempt >= http.max_retries
                 THEN RealtimeYield(http, HttpReq(1, attempt, answer, FALSE), answer)
                 ELSE [http EXCEPT !.reqs = Append(@, HttpReq(1, attempt, answer, TRUE)),
                                   !.sleeps = @ + 1,
                                   !.attempt = @ + 1]
            ELSE RealtimeYield(http, HttpReq(1, attempt, answer, FALSE), answer)
    /\ UNCHANGED <<rawfs, prefs, wr, rd, log, kc, task, reg, ld, zip, batch>>

\* DataMallLinkFileSource.fetch: one iteration of the loop of
\* _request_with_retry, for the discovery URL (1) and then the link (2);
\* raise_for_status() raises for every status from 400 on and `except
\* Exception` retries whatever was raised
LinkFileRequest ==
    /\ http.kind = "datamall_linkfile"
    /\ http.pc = "request"
    /\ LET e == http.ep
           answer == AnswerAt(http.server, e, RequestsTo(http.reqs, e) + 1)
           attempt == http.attempt
       IN http' =
            IF answer # TransportError /\ answer < 400
            THEN IF e = 1
                 THEN [http EXCEPT !.reqs = Append(@, HttpReq(e, attempt, answer, FALSE)),
                                   !.ep = 2, !.attempt = 0]
                 ELSE [http EXCEPT !.pc = "done",
                                   !.reqs = Append(@, HttpReq(e, attempt, answer, FALSE)),
                                   !.records = Append(@, [is_zip |-> <<"0">>])]
            ELSE IF attempt >= http.max_retries
            THEN [http EXCEPT !.pc = "done",
                              !.reqs = Append(@, HttpReq(e, attempt, answer, FALSE)),
                              !.error = <<HttpError(IF answer = TransportError
                                                    THEN "ConnectionError"
                                                    ELSE "HTTPError", answer)>>]
            ELSE [http EXCEPT !.reqs = Append(@, HttpReq(e, attempt, answer, TRUE)),
                              !.sleeps = @ + 1,
                              !.attempt = @ + 1]
    /\ UNCHANGED <<rawfs, prefs, wr, rd, log, kc, task, reg, ld, zip, batch>>

\* OSMOverpassSource.fetch: where the two nested for loops go after a
\* `continue` at (endpoint e, attempt): the next attempt, the next endpoint
\* or the raise that follows the loops
OverpassContinue(h, req) ==
    IF h.attempt < h.max_retries
    THEN [h EXCEPT !.reqs = Append(@, req), !.sleeps = @ + 1, !.attempt = @ + 1]
    ELSE IF h.ep < Len(h.server)
    THEN [h EXCEPT !.reqs = Append(@, req), !.sleeps = @ + 1, !.ep = @ + 1,
                   !.attempt = 0]
    ELSE [h EXCEPT !.pc = "done", !.reqs = Append(@, req), !.sleeps = @ + 1,
                   !.error = <<HttpError("RuntimeError", req.answer)>>]

\* OSMOverpassSource.fetch: one iteration of the inner loop
OverpassRequest ==
    /\ http.kind = "osm_overpass"
    /\ http.pc = "request"
    /\ LET e == http.ep
           answer == AnswerAt(http.server, e, RequestsTo(http.reqs, e) + 1)
           attempt == http.attempt
       IN http' =
            IF answer = TransportError
            THEN IF attempt < http.max_retries
                 THEN OverpassContinue(http, HttpReq(e, attempt, answer, TRUE))
                 ELSE [http EXCEPT !.pc = "done",
                                   !.reqs = Append(@, HttpReq(e, attempt, answer, FALSE)),
                                   !.error = <<HttpError("RuntimeError", answer)>>]
            ELSE IF answer >= 400
            THEN IF answer \in OverpassRetryStatuses /\ attempt < http.max_retries
                 THEN OverpassContinue(http, HttpReq(e, attempt, answer, TRUE))
                 ELSE [http EXCEPT !.pc = "done",
                                   !.reqs = Append(@, HttpReq(e, attempt, answer, FALSE)),
                                   !.error = <<HttpError("RuntimeError", answer)>>]
            ELSE [http EXCEPT !.pc = "done",
                              !.reqs = Append(@, HttpReq(e, attempt, answer, FALSE)),
                              !.records = Append(@, [endpoint_url |-> e])]
    /\ UNCHANGED <<rawfs, prefs, wr, rd, log, kc, task, reg, ld, zip, batch>>

\* a validated source about to fetch, and the server it will talk to
InitHttp ==
    /\ CacheInit
    /\ kc = <<>>
    /\ task = <<>>
    /\ reg = <<>>
    /\ ld = <<>>
    /\ zip = <<>>
    /\ batch = <<>>
    /\ \E kind \in HttpKinds, max_retries \in 0..MaxRetries, first \in ServerScripts,
          second \in MirrorScripts, mirrors \in 1..2 :
          /\ kind = "data_gov_sg.realtime" => mirrors = 1
          /\ kind = "datamall_linkfile" => mirrors = 2
          /\ mirrors = 1 => second = <<200>>
          /\ http = [kind |-> kind,
                     max_retries |-> max_retries,
                     server |-> IF mirrors = 1 THEN <<first>> ELSE <<first, second>>,
                     pc |-> "request", ep |-> 1, attempt |-> 0,
                     reqs |-> <<>>, sleeps |-> 0, records |-> <<>>, error |-> <<>>]

NextHttp ==
    \/ DataGovRequest
    \/ LinkFileRequest
    \/ OverpassRequest

SpecHttp == InitHttp /\ [][NextHttp]_vars

\* C23: against a URL that answers every request with 503 the source makes
\* exactly max_retries + 1 attempts on it, then the fetch fails with an
\* error that carries the status 503, and no record is yielded.
C23_RetryBound ==
    (http.pc = "done" /\ http.server[1] = <<503>>) =>
        /\ RequestsTo(http.reqs, 1) = http.max_retries + 1
        /\ http.records = <<>>
        /\ http.error # <<>>
        /\ http.error[1].status = 503

\* the server answers k requests with a retryable status and then 200
RetriedThenOk(script, k) ==
    /\ Len(script) = k + 1
    /\ \A i \in 1..k : RetryableStatus(script[i])
    /\ script[k + 1] = 200

\* C24: data_gov_sg.realtime, the first k <= max_retries requests answered
\* with a retryable status and request k+1 with 200: exactly k+1 requests
\* and k backoff sleeps are made and the one record has meta.retries ==
\* str(k).
C24_RetriesCounted ==
    \A k \in 0..MaxRetries :
        ( /\ http.kind = "data_gov_sg.realtime"
          /\ http.pc = "done"
          /\ k <= http.max_retries
          /\ RetriedThenOk(http.server[1], k) ) =>
            /\ Len(http.reqs) = k + 1
            /\ http.sleeps = k
            /\ http.error = <<>>
            /\ Len(http.records) = 1
            /\ http.records[1].retries = Decimal(k)
            /\ http.records[1].http_status = <<"2", "0", "0">>

\* 503, 429, then 200 with max_retries = 2: three requests, two sleeps, one
\* record with retries "2"
C24_Witness ==
    /\ http.kind = "data_gov_sg.realtime"
    /\ http.pc = "done"
    /\ http.max_retries = 2
    /\ http.server[1] = <<503, 429, 200>>
    /\ Len(http.reqs) = 3
    /\ http.sleeps = 2
    /\ http.records = << [http_status |-> <<"2", "0", "0">>, retries |-> <<"2">>] >>

\* every answer of every mirror is 200, a retried status or a transport error
OverpassTransientOnly ==
    \A e \in 1..Len(http.server) : \A i \in 1..Len(http.server[e]) :
        http.server[e][i] \in {200, TransportError} \cup OverpassRetryStatuses

\* C25: osm_overpass tries its mirrors in list order, leaves a mirror only
\* after retry_max retries on it have failed, raises only when every mirror
\* is exhausted, and a success yields exactly one record and ends the fetch.
C25_MirrorsInOrder ==
    (http.kind = "osm_overpass" /\ http.pc = "done" /\ OverpassTransientOnly) =>
        /\ \A i, j \in 1..Len(http.reqs) : i < j => http.reqs[i].ep <= http.reqs[j].ep
        /\ \A e \in 1..Len(http.server) :
              e < http.reqs[Len(http.reqs)].ep =>
                  RequestsTo(http.reqs, e) = http.max_retries + 1
        /\ http.error # <<>> =>
              \A e \in 1..Len(http.server) :
                  RequestsTo(http.reqs, e) = http.max_retries + 1
        /\ http.error = <<>> =>
              /\ Len(http.records) = 1
              /\ http.reqs[Len(http.reqs)].answer = 200

\* C26: a request that fails without an HTTP status on attempt i <
\* max_retries is followed by a backoff sleep and by another attempt on the
\* same URL; the error does not reach the caller at that point.
C26_TransportErrorRetried ==
    \A i \in 1..Len(http.reqs) :
        (http.reqs[i].answer = TransportError /\ http.reqs[i].attempt < http.max_retries) =>
            /\ http.reqs[i].slept
            /\ IF i < Len(http.reqs)
               THEN /\ http.reqs[i + 1].ep = http.reqs[i].ep
                    /\ http.reqs[i + 1].attempt = http.reqs[i].attempt + 1
               ELSE http.pc = "request" /\ http.error = <<>>

-----------------------------------------------------------------------------
(* The paginated sources (SpecPaged).  One paginated fetch, one page        *)
(* request per step; the server chooses the outcome of every page request:  *)
(* a parsable page with n rows, a body that cannot be parsed, or a failure  *)
(* that the HTTP layer raises.  `late` and `over` record a request made     *)
(* after a short or unparsable page, or with a cap already reached.         *)

PageSize == 2        \* rows of a full page: page_size / DEFAULT_PAGE_SIZE (500)

MaxPages == 2        \* largest max_pages configured; max_rows up to MaxPages * PageSize

Rows(n) == [t |-> "rows", n |-> n]

Unparsable == [t |-> "unparsable", n |-> 0]

Failure == [t |-> "failure", n |-> 0]

PageOutcomes == { Rows(n) : n \in 0..PageSize } \cup {Unparsable, Failure}

\* the page ends the listing as the spec describes it: short or unparsable
EndsListing(outcome) == outcome.t = "unparsable" \/ outcome.n < PageSize

\* history kept with every page request
Requested(h, outcome) ==
    [h EXCEPT !.requests = IF @ <= MaxPages THEN @ + 1 ELSE @,
              !.late = @ \/ h.ended,
              !.over = @ \/ (h.max_pages # <<>> /\ h.yielded_pages >= h.max_pages[1])
                         \/ (h.max_rows # <<>> /\ h.yielded_rows >= h.max_rows[1]),
              !.ended = @ \/ EndsListing(outcome),
              !.last = outcome]

\* DataGovSgDatastoreSearchSource.fetch: the two tests at the head of the loop
CapsReached(h) ==
    \/ h.max_pages # <<>> /\ h.yielded_pages >= h.max_pages[1]
    \/ h.max_rows # <<>> /\ h.yielded_rows >= h.max_rows[1]

\* DataGovSgDatastoreSearchSource.fetch: one turn of `while True`
DatastorePage(outcome) ==
    /\ http.kind = "data_gov_sg.datastore_search"
    /\ http.pc = "page"
    /\ IF CapsReached(http)
       THEN http' = [http EXCEPT !.pc = "done"]
       ELSE LET h == Requested(http, outcome)
                n == IF outcome.t = "rows" THEN outcome.n ELSE 0
            IN IF outcome.t = "failure"
               THEN http' = [h EXCEPT !.pc = "done", !.error = <<"URLError">>]
               ELSE http' = [h EXCEPT !.records = @ + 1,
                                      !.yielded_pages = @ + 1,
                                      !.yielded_rows = @ + n,
                                      !.skip = IF n < PageSize THEN @ ELSE @ + 1,
                                      !.pc = IF n < PageSize THEN "done" ELSE "page"]
    /\ UNCHANGED <<rawfs, prefs, wr, rd, log, kc, task, reg, ld, zip, batch>>

\* DataMallSource._fetch_paged: one turn of `while True`; the artifacts are
\* returned as a list when the loop is left and lost when _fetch_one raises.
\* The loop reads neither the number of artifacts nor $skip: the first stops
\* counting above MaxPages and the second is kept modulo MaxPages + 2.
DataMallPage(outcome) ==
    /\ http.kind = "datamall"
    /\ http.pc = "page"
    /\ LET h == Requested(http, outcome)
           artifacts == IF http.yielded_pages <= MaxPages THEN http.yielded_pages + 1
                        ELSE http.yielded_pages
       IN IF outcome.t = "failure"
          THEN http' = [h EXCEPT !.pc = "done", !.error = <<"RuntimeError">>]
          ELSE IF outcome.t = "unparsable" \/ outcome.n <= 0 \/ outcome.n < PageSize
          THEN http' = [h EXCEPT !.yielded_pages = artifacts, !.records = artifacts,
                                 !.pc = "done"]
          ELSE http' = [h EXCEPT !.yielded_pages = artifacts,
                                 !.skip = (@ + 1) % (MaxPages + 2)]
    /\ UNCHANGED <<rawfs, prefs, wr, rd, log, kc, task, reg, ld, zip, batch>>

\* a source with a configuration that validate() accepts (datastore_search
\* requires max_pages or max_rows; datamall has neither)
InitPaged ==
    /\ CacheInit
    /\ kc = <<>>
    /\ task = <<>>
    /\ reg = <<>>
    /\ ld = <<>>
    /\ zip = <<>>
    /\ batch = <<>>
    /\ \E kind \in {"data_gov_sg.datastore_search", "datamall"},
          max_pages \in {<<>>} \cup { <<n>> : n \in 1..MaxPages },
          max_rows \in {<<>>} \cup { <<n>> : n \in 1..(MaxPages * PageSize) } :
          /\ kind = "datamall" => max_pages = <<>> /\ max_rows = <<>>
          /\ kind = "data_gov_sg.datastore_search" => max_pages # <<>> \/ max_rows # <<>>
          /\ http = [kind |-> kind, max_pages |-> max_pages, max_rows |-> max_rows,
                     pc |-> "page", skip |-> 0, requests |-> 0, yielded_pages |-> 0,
                     yielded_rows |-> 0, records |-> 0, error |-> <<>>,
                     ended |-> FALSE, late |-> FALSE, over |-> FALSE,
                     last |-> Rows(PageSize)]

NextPaged ==
    \/ \E outcome \in PageOutcomes : DatastorePage(outcome)
    \/ \E outcome \in PageOutcomes : DataMallPage(outcome)

\* the thread running the fetch keeps running
SpecPaged == InitPaged /\ [][NextPaged]_vars /\ WF_vars(NextPaged)

\* one record per page request, no request after the listing ended, none
\* with a cap reached
PagedFetchInBounds ==
    /\ ~http.late
    /\ ~http.over
    /\ (http.pc = "done" /\ http.error = <<>>) => http.records = http.requests

-----------------------------------------------------------------------------
(* The batch loop of cmd_run: cli/main.py (SpecBatch).  The config lists   *)
(* jobs; --jobs keeps those whose name it gives.  What prepare(), run()    *)
(* and close() of a task do is an input: each returns, raises an exception *)
(* of the Exception family, or is cut by KeyboardInterrupt.  batch.calls   *)
(* is the history of the calls made on the tasks, batch.exit the value    *)
(* cmd_run returns or the exception that leaves it.                       *)

MaxJobs == 2         \* jobs in the config

CallOutcomes == {"ok", "Exception", "KeyboardInterrupt"}

\* close() of RunJobTask only logs and sets the state; another Task may raise
CloseOutcomes == {"ok", "Exception"}

\* a job of the config with what the calls on its task will do; run() is
\* not reached when prepare() raises
BatchJobs ==
    { j \in [prepare : CallOutcomes, run : CallOutcomes, close : CloseOutcomes] :
         j.prepare # "ok" => j.run = "ok" }

\* a job is named by its position in the config; MaxJobs + 1 names no job
JobNames == 1..(MaxJobs + 1)

Call(op, job) == [op |-> op, job |-> job]

\* the flag given on the command line, if any
FailFastFlags == {"none", "--fail-fast", "--no-fail-fast"}

\* [j for j in jobs if j.name in args.jobs], as positions in the config
SelectedJobs(jobs, args_jobs) ==
    IF args_jobs = {} THEN [k \in 1..Len(jobs) |-> k]
    ELSE SelectSeq([k \in 1..Len(jobs) |-> k], LAMBDA k : k \in args_jobs)

InitBatch ==
    /\ CacheInit
    /\ kc = <<>>
    /\ task = <<>>
    /\ reg = <<>>
    /\ ld = <<>>
    /\ http = <<>>
    /\ zip = <<>>
    /\ \E n \in 0..MaxJobs, fail_fast \in BOOLEAN, args_jobs \in SUBSET JobNames :
          \E jobs \in [1..n -> BatchJobs], flag \in FailFastFlags :
             batch = [jobs |-> jobs, args_jobs |-> args_jobs, fail_fast |-> fail_fast,
                      flag |-> flag,
                      tasks |-> <<>>, pc |-> "start", t |-> 0, failures |-> 0,
                      exc |-> "none", brk |-> FALSE, calls |-> <<>>, exit |-> "none"]

\* cmd_run up to the loop: --fail-fast or --no-fail-fast is assigned to
\* execution.fail_fast, which ExecutionConfig, a frozen dataclass, refuses,
\* so with either flag cmd_run raises here and fail_fast is always the
\* config's; the jobs are filtered and one task is made for each; with no
\* job left it returns 0
CmdRunStart ==
    /\ batch.pc = "start"
    /\ LET tasks == SelectedJobs(batch.jobs, batch.args_jobs)
       IN batch' = IF batch.flag # "none"
                   THEN [batch EXCEPT !.pc = "done", !.exit = "FrozenInstanceError"]
                   ELSE IF tasks = <<>>
                   THEN [batch EXCEPT !.pc = "done", !.exit = "0"]
                   ELSE [batch EXCEPT !.tasks = tasks, !.t = 1, !.pc = "prepare"]
    /\ UNCHANGED <<rawfs, prefs, wr, rd, log, kc, task, reg, ld, http, zip>>

\* where the try statement goes when a call on the task raised `exc`
AfterRaise(exc) == IF exc = "Exception" THEN "except" ELSE "finally"

\* task.prepare()
TaskPrepare ==
    /\ batch.pc = "prepare"
    /\ LET k == batch.tasks[batch.t]
           o == batch.jobs[k].prepare
       IN batch' = [batch EXCEPT !.calls = Append(@, Call("prepare", k)),
                                 !.exc = IF o = "ok" THEN "none" ELSE o,
                                 !.pc = IF o = "ok" THEN "run" ELSE AfterRaise(o)]
    /\ UNCHANGED <<rawfs, prefs, wr, rd, log, kc, task, reg, ld, http, zip>>

\* task.run()
TaskRun ==
    /\ batch.pc = "run"
    /\ LET k == batch.tasks[batch.t]
           o == batch.jobs[k].run
       IN batch' = [batch EXCEPT !.calls = Append(@, Call("run", k)),
                                 !.exc = IF o = "ok" THEN "none" ELSE o,
                                 !.pc = IF o = "ok" THEN "finally" ELSE AfterRaise(o)]
    /\ UNCHANGED <<rawfs, prefs, wr, rd, log, kc, task, reg, ld, http, zip>>

\* except Exception: the failure is counted; with fail_fast the loop is left
ExceptClause ==
    /\ batch.pc = "except"
    /\ batch' = [batch EXCEPT !.failures = @ + 1, !.exc = "none",
                              !.brk = batch.fail_fast, !.pc = "finally"]
    /\ UNCHANGED <<rawfs, prefs, wr, rd, log, kc, task, reg, ld, http, zip>>

\* a variant that closes the task in an else clause: only when nothing
\* was raised
close_in_else_clause ==
    /\ batch.pc = "finally"
    /\ batch' =
         LET closed == IF batch.exc = "none" /\ ~batch.brk
                       THEN [batch EXCEPT !.calls =
                                Append(@, Call("close", batch.tasks[batch.t]))]
                       ELSE batch
         IN IF batch.exc # "none"
            THEN [closed EXCEPT !.pc = "done", !.exit = batch.exc]
            ELSE IF batch.brk \/ batch.t = Len(batch.tasks)
            THEN [closed EXCEPT !.pc = "return"]
            ELSE [closed EXCEPT !.t = @ + 1, !.pc = "prepare"]
    /\ UNCHANGED <<rawfs, prefs, wr, rd, log, kc, task, reg, ld, http, zip>>

\* finally: task.close(), an Exception of which is logged and dropped; then
\* the exception in flight leaves cmd_run, or the loop is left by break or
\* after the last task, or it goes to the next task
FinallyClose ==
    /\ batch.pc = "finally"
    /\ batch' =
         LET closed == [batch EXCEPT !.calls =
                           Append(@, Call("close", batch.tasks[batch.t]))]
         IN IF batch.exc # "none"
            THEN [closed EXCEPT !.pc = "done", !.exit = batch.exc]
            ELSE IF batch.brk \/ batch.t = Len(batch.tasks)
            THEN [closed EXCEPT !.pc = "return"]
            ELSE [closed EXCEPT !.t = @ + 1, !.pc = "prepare"]
    /\ UNCHANGED <<rawfs, prefs, wr, rd, log, kc, task, reg, ld, http, zip>>

\* return 0 if failures == 0 else 5
CmdRunReturn ==
    /\ batch.pc = "return"
    /\ batch' = [batch EXCEPT !.pc = "done",
                              !.exit = IF batch.failures = 0 THEN "0" ELSE "5"]
    /\ UNCHANGED <<rawfs, prefs, wr, rd, log, kc, task, reg, ld, http, zip>>

NextBatch ==
    \/ CmdRunStart
    \/ TaskPrepare
    \/ TaskRun
    \/ ExceptClause
    \/ FinallyClose
    \/ CmdRunReturn

\* cmd_run is sequential code: it goes on while it has a statement to run
SpecBatch == InitBatch /\ [][NextBatch]_vars /\ WF_vars(NextBatch)

-----------------------------------------------------------------------------
(* Properties of the batch loop under SpecBatch *)

Called(op, k) == \E p \in 1..Len(batch.calls) : batch.calls[p] = Call(op, k)

TimesCalled(op, k) ==
    Cardinality({ p \in 1..Len(batch.calls) : batch.calls[p] = Call(op, k) })

\* the task of job k has failed: its prepare() or its run() raised
TaskFailed(k) ==
    \/ Called("prepare", k) /\ batch.jobs[k].prepare # "ok"
    \/ Called("run", k) /\ batch.jobs[k].run # "ok"

OpRank(op) == CASE op = "prepare" -> 1 [] op = "run" -> 2 [] op = "close" -> 3

\* the calls go job by job in the order of the config, and on one task
\* prepare, run, close come in this order and at most once each
SerialInConfigOrder ==
    \A p, q \in 1..Len(batch.calls) :
        p < q =>
           \/ batch.calls[p].job < batch.calls[q].job
           \/ /\ batch.calls[p].job = batch.calls[q].job
              /\ OpRank(batch.calls[p].op) < OpRank(batch.calls[q].op)

BatchSafety ==
    /\ SerialInConfigOrder
    /\ \A k \in 1..Len(batch.jobs) :
          /\ Called("run", k) => Called("prepare", k) /\ batch.jobs[k].prepare = "ok"
          /\ Called("close", k) => Called("prepare", k)
          /\ Called("prepare", k) => batch.args_jobs = {} \/ k \in batch.args_jobs
          /\ (batch.fail_fast /\ TaskFailed(k)) =>
                \A j \in (k + 1)..Len(batch.jobs) : ~Called("prepare", j) /\ ~Called("run", j)
          /\ batch.pc = "done" =>
                TimesCalled("close", k) = IF Called("prepare", k) THEN 1 ELSE 0
    /\ (batch.pc = "done" /\ batch.exit # "FrozenInstanceError") =>
          (batch.exit # "0" <=> \E k \in 1..Len(batch.jobs) : TaskFailed(k))

\* C39: in the batch loop of cmd_run the tasks run serially in config order
\* and close() is called exactly once on every task whose prepare() was
\* attempted; with fail_fast no task after the first failing one is
\* prepared or run; the exit code is non-zero exactly when at least one
\* task failed.
C39_BatchLoop ==
    /\ []BatchSafety
    /\ \A k \in 1..MaxJobs :
          (k <= Len(batch.jobs) /\ Called("prepare", k)) ~> Called("close", k)

\* without fail_fast the first task failed in run() and the second one ran
\* to its end, both were closed, and cmd_run returned 5
C39_Witness ==
    /\ batch.pc = "done"
    /\ ~batch.fail_fast
    /\ batch.exit = "5"
    /\ batch.calls = <<Call("prepare", 1), Call("run", 1), Call("close", 1),
                       Call("prepare", 2), Call("run", 2), Call("close", 2)>>
    /\ batch.jobs[1].run = "Exception"
    /\ batch.jobs[2].run = "ok"

-----------------------------------------------------------------------------
(* The link-file source after the download (SpecZip):                       *)
(* DataMallLinkFileSource.fetch from the zip detection on.  The downloaded  *)
(* file is either not a zip or an archive, a sequence of entries with a     *)
(* file name and a size.  The extraction directory is new and holds no      *)
(* symbolic link, so Path.resolve() only folds ".." components.  A path is  *)
(* a sequence of components, a component a str.                             *)

MaxEntries == 2      \* entries of the downloaded archive

ExtractRoot == << <<"t">>, <<"r">> >>       \* extract_dir.resolve()

ZipEntry(filename, size) == [filename |-> filename, size |-> size]

\* entries an archive can hold: plain files, a file in a subdirectory, an
\* absolute name, names that climb with "..", one of them with a backslash,
\* one into a sibling whose name starts like the root, a name that only
\* starts with two dots, and two directory entries
ZipEntries ==
    { ZipEntry(<<"a">>, 1), ZipEntry(<<"a">>, 2),
      ZipEntry(<<"s", "/", "b">>, 1), ZipEntry(<<"s", "/", "b">>, 2),
      ZipEntry(<<"/", "e">>, 1),
      ZipEntry(<<".", ".", "/", "e">>, 1),
      ZipEntry(<<".", ".", "/", "r", "r", "/", "e">>, 1),
      ZipEntry(<<".", ".", "\\", "e">>, 1),
      ZipEntry(<<".", ".", "a">>, 1),
      ZipEntry(<<"s", "/">>, 0),
      ZipEntry(<<".", ".", "/", "x", "/">>, 0) }

Archives == UNION { [1..n -> ZipEntries] : n \in 0..MaxEntries }

\* info.filename.replace("\\", "/")
replace_backslash(s) == [i \in 1..Len(s) |-> IF s[i] = "\\" THEN "/" ELSE s[i]]

\* ZipInfo.is_dir()
is_dir(filename) == Len(filename) > 0 /\ filename[Len(filename)] = "/"

\* a variant of the name test that looks for an absolute name only
dotdot_ignored(name) == IsAbsolute(name)

\* name.startswith("/") or ".." in name.split("/")
NameRejected(name) ==
    \/ IsAbsolute(name)
    \/ \E i \in 1..Len(SplitSlash(name)) : SplitSlash(name)[i] = <<".", ".">>

\* ".." components folded from left to right, as resolve() does without links
RECURSIVE FoldParts(_, _)
FoldParts(path, parts) ==
    IF parts = <<>> THEN path
    ELSE IF Head(parts) = <<".", ".">>
    THEN FoldParts(IF path = <<>> THEN path ELSE SubSeq(path, 1, Len(path) - 1),
                   Tail(parts))
    ELSE FoldParts(Append(path, Head(parts)), Tail(parts))

\* (extract_dir / name).resolve()
Resolve(root, name) ==
    FoldParts(IF IsAbsolute(name) THEN <<>> ELSE root, PathParts(name))

\* str(path) of an absolute path
RECURSIVE PathStr(_)
PathStr(path) ==
    IF path = <<>> THEN <<>> ELSE <<"/">> \o Head(path) \o PathStr(Tail(path))

\* s.startswith(prefix)
StartsWith(s, prefix) == Len(s) >= Len(prefix) /\ SubSeq(s, 1, Len(prefix)) = prefix

\* not str(target).startswith(str(extract_dir.resolve()))
ResolvedRejected(root, name) ==
    ~StartsWith(PathStr(Resolve(root, name)), PathStr(root))

\* _read_bytes_limited / the size test of _safe_unzip
TooLarge(max_bytes, size) == max_bytes > 0 /\ size > max_bytes

\* the bytes now at `path`: those of the last write to it
SizeAt(files, path) ==
    LET last == CHOOSE i \in 1..Len(files) :
                    files[i].path = path /\ \A j \in (i + 1)..Len(files) : files[j].path # path
    IN files[last].size

\* fetch: `is_zip = self._is_zip(final_path)` and the branch for a file that
\* is not a zip, which yields the download itself
ZipDetect ==
    /\ zip.pc = "detect"
    /\ zip' = IF zip.is_zip
              THEN [zip EXCEPT !.pc = "unzip", !.i = 1]
              ELSE IF TooLarge(zip.max_bytes, zip.size)
              THEN [zip EXCEPT !.pc = "done", !.error = <<"file too large">>]
              ELSE [zip EXCEPT !.pc = "done",
                               !.records = <<[is_zip |-> <<"0">>,
                                              inner_file |-> <<"d">>]>>]
    /\ UNCHANGED <<rawfs, prefs, wr, rd, log, kc, task, reg, ld, http, batch>>

\* a variant of _safe_unzip that passes over an entry it does not accept
safe_unzip_skips_rejected ==
    /\ zip.pc = "unzip"
    /\ zip' =
         IF zip.i > Len(zip.entries)
         THEN [zip EXCEPT !.pc = IF zip.out = <<>> THEN "done" ELSE "emit", !.k = 1]
         ELSE LET info == zip.entries[zip.i]
                  name == replace_backslash(info.filename)
                  target == Resolve(ExtractRoot, name)
              IN IF \/ is_dir(info.filename)
                    \/ NameRejected(name)
                    \/ ResolvedRejected(ExtractRoot, name)
                    \/ TooLarge(zip.max_bytes, info.size)
                 THEN [zip EXCEPT !.i = @ + 1]
                 ELSE [zip EXCEPT !.files = Append(@, [entry |-> zip.i, path |-> target,
                                                       size |-> info.size]),
                                  !.out = Append(@, target),
                                  !.i = @ + 1]
    /\ UNCHANGED <<rawfs, prefs, wr, rd, log, kc, task, reg, ld, http, batch>>

\* _safe_unzip: one turn of `for info in infos`, and the return of the list
SafeUnzipEntry ==
    /\ zip.pc = "unzip"
    /\ zip' =
         IF zip.i > Len(zip.entries)
         THEN [zip EXCEPT !.pc = IF zip.out = <<>> THEN "done" ELSE "emit", !.k = 1]
         ELSE LET info == zip.entries[zip.i]
                  name == replace_backslash(info.filename)
                  target == Resolve(ExtractRoot, name)
              IN IF is_dir(info.filename)
                 THEN [zip EXCEPT !.i = @ + 1]
                 ELSE IF NameRejected(name)
                 THEN [zip EXCEPT !.pc = "done", !.error = <<"zip slip detected">>]
                 ELSE IF ResolvedRejected(ExtractRoot, name)
                 THEN [zip EXCEPT !.pc = "done",
                                  !.error = <<"zip slip detected (resolved)">>]
                 ELSE IF TooLarge(zip.max_bytes, info.size)
                 THEN [zip EXCEPT !.pc = "done", !.error = <<"extracted file too large">>]
                 ELSE [zip EXCEPT !.files = Append(@, [entry |-> zip.i, path |-> target,
                                                       size |-> info.size]),
                                  !.out = Append(@, target),
                                  !.i = @ + 1]
    /\ UNCHANGED <<rawfs, prefs, wr, rd, log, kc, task, reg, ld, http, batch>>

\* fetch: one turn of `for fp in extracted_files`
ZipEmit ==
    /\ zip.pc = "emit"
    /\ LET fp == zip.out[zip.k]
       IN zip' =
            IF TooLarge(zip.max_bytes, SizeAt(zip.files, fp))
            THEN [zip EXCEPT !.pc = "done", !.error = <<"file too large">>]
            ELSE [zip EXCEPT !.records = Append(@, [is_zip |-> <<"1">>,
                                                    inner_file |-> fp[Len(fp)],
                                                    inner_path |-> PathStr(fp)]),
                             !.k = @ + 1,
                             !.pc = IF zip.k = Len(zip.out) THEN "done" ELSE "emit"]
    /\ UNCHANGED <<rawfs, prefs, wr, rd, log, kc, task, reg, ld, http, batch>>

\* the download has been saved; max_bytes = 0 switches the size limit off
InitZip ==
    /\ CacheInit
    /\ kc = <<>>
    /\ task = <<>>
    /\ reg = <<>>
    /\ ld = <<>>
    /\ http = <<>>
    /\ batch = <<>>
    /\ \E is_zip \in BOOLEAN, entries \in Archives, size \in 1..2, max_bytes \in 0..2 :
          /\ is_zip => size = 1
          /\ ~is_zip => entries = <<>>
          /\ zip = [is_zip |-> is_zip, entries |-> entries, size |-> size,
                    max_bytes |-> max_bytes, pc |-> "detect", i |-> 0, k |-> 0,
                    out |-> <<>>, files |-> <<>>, records |-> <<>>, error |-> <<>>]

NextZip ==
    \/ ZipDetect
    \/ SafeUnzipEntry
    \/ ZipEmit

SpecZip == InitZip /\ [][NextZip]_vars

\* the path lies in the extraction root
Inside(root, path) == Len(path) >= Len(root) /\ SubSeq(path, 1, Len(root)) = root

\* the entry name is absolute, has a ".." segment (backslashes counted as
\* separators), or its target lies outside the root
UnsafeEntry(filename) ==
    LET name == replace_backslash(filename)
    IN \/ IsAbsolute(name)
       \/ \E i \in 1..Len(SplitSlash(name)) : SplitSlash(name)[i] = <<".", ".">>
       \/ ~Inside(ExtractRoot, Resolve(ExtractRoot, name))

\* _safe_unzip has come to entry i
Attempted(i) == zip.i > i \/ (zip.i = i /\ zip.pc = "done")

ZipSlipRaisedAt(i) ==
    /\ zip.i = i
    /\ zip.error \in {<<"zip slip detected">>, <<"zip slip detected (resolved)">>}
    /\ \A w \in 1..Len(zip.files) : zip.files[w].entry # i

AllSafeWithin ==
    \A i \in 1..Len(zip.entries) :
        /\ ~UnsafeEntry(zip.entries[i].filename)
        /\ ~TooLarge(zip.max_bytes, zip.entries[i].size)

FileEntries == SelectSeq(zip.entries, LAMBDA e : ~is_dir(e.filename))

\* C29: a zip with n safe entries that are not directories yields n
\* records in archive order, each with is_zip "1" and inner_file equal to
\* the entry's path inside the archive; a download that is not a zip yields
\* one record with is_zip "0".
C29_OneRecordPerEntry ==
    /\ (zip.pc = "done" /\ zip.is_zip /\ AllSafeWithin) =>
          /\ zip.error = <<>>
          /\ Len(zip.records) = Len(FileEntries)
          /\ \A k \in 1..Len(zip.records) :
                /\ zip.records[k].is_zip = <<"1">>
                /\ zip.records[k].inner_file = FileEntries[k].filename
    /\ (zip.pc = "done" /\ ~zip.is_zip /\ zip.error = <<>>) =>
          /\ Len(zip.records) = 1
          /\ zip.records[1].is_zip = <<"0">>

\* the entries of the archive that _safe_unzip refuses: zip slip by name or
\* by resolved path, or more bytes than max_bytes
RejectedEntries ==
    { i \in 1..Len(zip.entries) :
         LET name == replace_backslash(zip.entries[i].filename)
         IN /\ ~is_dir(zip.entries[i].filename)
            /\ \/ NameRejected(name)
               \/ ResolvedRejected(ExtractRoot, name)
               \/ TooLarge(zip.max_bytes, zip.entries[i].size) }

\* C38: if any entry of the downloaded zip is rejected (zip slip, or size
\* above max_bytes), fetch raises before it yields any record of that
\* archive.
C38_RejectedArchiveYieldsNothing ==
    (zip.is_zip /\ RejectedEntries # {}) =>
        /\ zip.records = <<>>
        /\ zip.pc # "emit"
        /\ zip.pc = "done" => zip.error # <<>>

\* the first entry was extracted, the second was refused for its size, and
\* fetch has raised without a record
C38_Witness ==
    /\ zip.is_zip
    /\ RejectedEntries = {2}
    /\ zip.max_bytes > 0
    /\ Len(zip.files) = 1
    /\ zip.pc = "done"
    /\ zip.error = <<"extracted file too large">>
    /\ zip.records = <<>>

====
